---- MODULE Spec2Model ----
(***************************************************************************)
(* The work-distribution pipeline of indexer/event_classifier.py: the      *)
(* claimer (UnclassifiedEventsReader), the worker pool                     *)
(* (EventClassifierWorker), the statistics loop of the main process and    *)
(* the per-trace classification driver process_trace, over the tables      *)
(* _classifier_tasks, actions, action_accounts, _classifier_failed_traces  *)
(* and blocks_classified.                                                  *)
(*                                                                         *)
(* Time is counted in minutes.  A database transaction is modelled by its  *)
(* statements' effects kept with the process until COMMIT applies them to  *)
(* the tables (READ COMMITTED: a statement reads the committed tables).    *)
(* Row locks are modelled where the code relies on them: the rows a claim  *)
(* statement updated stay locked until its transaction ends.               *)
(***************************************************************************)
EXTENDS Integers, Sequences, FiniteSets, TLC

(* ------------------------------ bounds -------------------------------- *)
\* The clock stops at MaxTime minutes and advances TickMinutes at a time.
MaxTime == 10
TickMinutes == 5
\* args.batch_size: the LIMIT of one claim.
batch_size == 2
\* args.prefetch_size: the bound of task_queue.
prefetch_size == 2
\* result_queue is unbounded in the code; the model holds at most this many
\* unread outcomes.
MaxResults == 1
\* The longest transaction list of a trace handed to process_trace alone.
MaxTx == 2
MaxAmount == 2

(* -------------------------- program constants ------------------------- *)
\* INTERVAL '5 minutes'
LeaseMinutes == 5
\* big_traces_threshold=4000
big_traces_threshold == 4000
\* total_seconds() < 10: the window of one flush.
FlushSeconds == 10
\* finished_queue.get(timeout=1)
GetTimeout == 1
\* SQL NULL / Python None in an integer column.
NULL == -1
\* Python None in a string column or variable.
None == "None"

Claimers == {"r1", "r2"}
Workers == {"w1", "w2"}

(* ------------------------- the read-only tables ----------------------- *)
\* Trace rows (read-only to the pipeline): A and C are ordinary traces, B is
\* above the big-trace threshold, K is a lone housekeeping transaction.
TraceTable ==
  << [trace_id |-> "A", mc_seqno_end |-> 1, nodes_ |-> 2,
      transactions |-> <<"ord", "ord">>],
     [trace_id |-> "B", mc_seqno_end |-> 1, nodes_ |-> 4001,
      transactions |-> <<"ord">>],
     [trace_id |-> "C", mc_seqno_end |-> 2, nodes_ |-> 1,
      transactions |-> <<"ord">>],
     [trace_id |-> "K", mc_seqno_end |-> 1, nodes_ |-> 1,
      transactions |-> <<"tick_tock">>] >>

TraceIds == {TraceTable[i].trace_id : i \in DOMAIN TraceTable}

\* The immutable columns of the _classifier_tasks rows the ingester created:
\* a task has a trace id or a masterchain sequence number.  The backlog of
\* the pipeline holds the rows of TaskIds; the rows 4 and 5 occur in the lists
\* handed to _split_tasks_into_batches alone.
TaskIds == {1, 2, 3}
SplitTaskIds == {1, 2, 3, 4, 5}

ClassifierTask(id) ==
  CASE id = 1 -> [id |-> 1, mc_seqno |-> NULL, trace_id |-> "A", start_after |-> NULL]
    [] id = 2 -> [id |-> 2, mc_seqno |-> 1, trace_id |-> None, start_after |-> NULL]
    [] id = 3 -> [id |-> 3, mc_seqno |-> NULL, trace_id |-> "C", start_after |-> 5]
    [] id = 4 -> [id |-> 4, mc_seqno |-> 2, trace_id |-> None, start_after |-> NULL]
    [] id = 5 -> [id |-> 5, mc_seqno |-> NULL, trace_id |-> "K", start_after |-> NULL]

(* ----------------------------- sequences ------------------------------ *)
Range(s) == {s[i] : i \in DOMAIN s}

RECURSIVE Concat(_)
Concat(ss) == IF ss = <<>> THEN <<>> ELSE Head(ss) \o Concat(Tail(ss))

VARIABLES
  now,               \* the clock, in minutes
  tasks,             \* _classifier_tasks: id -> [present, claimed_at]
  actions,           \* table actions
  action_accounts,   \* table action_accounts
  failed_traces,     \* table _classifier_failed_traces
  blocks_classified, \* table blocks_classified
  task_queue,        \* mp.Queue(prefetch_size) of batches
  result_queue,      \* mp.Queue() of batch outcomes
  rpc, rows, rnow, batches,          \* the claimers
  wpc, wtasks, tx, evals, results, last_error, \* the workers
  calls,             \* the calls of process_trace made on single traces
  channel,           \* the request ids published on the request channel
  received,          \* the request ids the on-demand loop has taken
  dpc, cur,          \* the on-demand loop: its position, the request in hand
  redis_result,      \* request id -> the actions stored under result_<id>
  redis_error,       \* request id -> the text stored under classifier_error_<id>
  published,         \* the messages published on the result channels
  swaps,             \* the builds of the StonFi swap rule on single matches
  engine, \* the classification driver: its position, the trace's chains, the candidate pool
  builds, \* the builds of the other swap rules on single matches
  emulated_calls, \* the calls of process_emulated_task_trace on single traces
  splits,            \* the calls of _split_tasks_into_batches on single lists
  finished_queue,    \* mp.Queue() of finished task ids
  finished,          \* the task ids ever put on finished_queue
  fpc, ftasks,       \* the finisher: its position, the ids it has collected
  since_commit       \* the seconds since the finisher's last_commit

vars == <<now, tasks, actions, action_accounts, failed_traces, blocks_classified,
          task_queue, result_queue, rpc, rows, rnow, batches,
          wpc, wtasks, tx, evals, results, last_error, calls,
          channel, received, dpc, cur, redis_result, redis_error, published,
          swaps, engine, builds, emulated_calls, splits, finished_queue, finished, fpc, ftasks, since_commit>>

store == <<tasks, actions, action_accounts, failed_traces, blocks_classified>>
claimerVars == <<rpc, rows, rnow, batches>>
workerVars == <<wpc, wtasks, tx, evals, results, last_error>>
demandVars == <<channel, received, dpc, cur, redis_result, redis_error, published>>
\* What the pipeline's processes leave alone.
finisherVars == <<finished_queue, finished, fpc, ftasks, since_commit>>
aux == <<calls, demandVars, swaps, engine, builds, emulated_calls, splits, finisherVars>>

(* ------------------------------ claimer ------------------------------- *)
\* A row is locked while a claim transaction that updated it is open.
Locked(id) == \E r \in Claimers : rpc[r] = "commit" /\ id \in Range(rows[r])

\* A claim statement without the not-before test.
EligibleAnyStart(id, t) ==
  /\ tasks[id].present
  /\ \/ tasks[id].claimed_at = NULL
     \/ tasks[id].claimed_at < t - LeaseMinutes

\* A claim statement whose lease test is not strict.
EligibleMutant(id, t) ==
  /\ tasks[id].present
  /\ \/ tasks[id].claimed_at = NULL
     \/ tasks[id].claimed_at <= t - LeaseMinutes
  /\ \/ ClassifierTask(id).start_after = NULL
     \/ ClassifierTask(id).start_after <= t

\* WHERE (claimed_at IS NULL OR claimed_at < NOW() - INTERVAL '5 minutes')
\*   AND (start_after IS NULL OR start_after <= NOW())
Eligible(id, t) ==
  /\ tasks[id].present
  /\ \/ tasks[id].claimed_at = NULL
     \/ tasks[id].claimed_at < t - LeaseMinutes
  /\ \/ ClassifierTask(id).start_after = NULL
     \/ ClassifierTask(id).start_after <= t

\* ORDER BY mc_seqno DESC NULLS FIRST: a sorts strictly before b.
Before(a, b) ==
  \/ ClassifierTask(a).mc_seqno = NULL /\ ClassifierTask(b).mc_seqno # NULL
  \/ /\ ClassifierTask(a).mc_seqno # NULL
     /\ ClassifierTask(b).mc_seqno # NULL
     /\ ClassifierTask(a).mc_seqno > ClassifierTask(b).mc_seqno

\* FOR UPDATE SKIP LOCKED: the rows the statement may take.
Candidates(t) == {id \in TaskIds : Eligible(id, t) /\ ~Locked(id)}

Min(a, b) == IF a < b THEN a ELSE b

\* LIMIT batch_size of the ordered candidates; rows that tie in the order
\* are taken in any order.
Selections(t) ==
  LET E == Candidates(t)
  IN {S \in SUBSET E :
        /\ Cardinality(S) = Min(batch_size, Cardinality(E))
        /\ \A s \in S, e \in E \ S : ~Before(e, s)}

\* The returned rows as a list, in the statement's order (ties by id).
RECURSIVE RowList(_)
RowList(S) ==
  IF S = {} THEN <<>>
  ELSE LET f == CHOOSE x \in S :
                  \A y \in S \ {x} : Before(x, y) \/ (~Before(y, x) /\ x < y)
       IN <<f>> \o RowList(S \ {f})

\* A split that returns the combined batch even when it is empty.
SplitTasksIntoBatchesAlways(ts) ==
  LET trace_tasks_batch == SelectSeq(ts, LAMBDA id : ClassifierTask(id).trace_id # None)
      seqno_tasks == SelectSeq(ts, LAMBDA id : ClassifierTask(id).trace_id = None)
      seqno_tasks_batches == [i \in DOMAIN seqno_tasks |-> <<seqno_tasks[i]>>]
  IN seqno_tasks_batches \o <<trace_tasks_batch>>

\* A split that puts every sequence task into one batch.
SplitTasksIntoBatchesMutant(ts) ==
  LET trace_tasks_batch == SelectSeq(ts, LAMBDA id : ClassifierTask(id).trace_id # None)
      seqno_tasks == SelectSeq(ts, LAMBDA id : ClassifierTask(id).trace_id = None)
      seqno_tasks_batches == IF seqno_tasks = <<>> THEN <<>> ELSE <<seqno_tasks>>
  IN IF Len(trace_tasks_batch) = 0
       THEN seqno_tasks_batches
       ELSE seqno_tasks_batches \o <<trace_tasks_batch>>

\* _split_tasks_into_batches
SplitTasksIntoBatches(ts) ==
  LET trace_tasks_batch == SelectSeq(ts, LAMBDA id : ClassifierTask(id).trace_id # None)
      seqno_tasks == SelectSeq(ts, LAMBDA id : ClassifierTask(id).trace_id = None)
      seqno_tasks_batches == [i \in DOMAIN seqno_tasks |-> <<seqno_tasks[i]>>]
  IN IF Len(trace_tasks_batch) = 0
       THEN seqno_tasks_batches
       ELSE seqno_tasks_batches \o <<trace_tasks_batch>>

\* The lists of claimed rows: no row twice.
TaskLists ==
  {ts \in UNION {[1 .. n -> SplitTaskIds] : n \in 0 .. 5} :
     \A i, j \in DOMAIN ts : ts[i] = ts[j] => i = j}

\* batches = self._split_tasks_into_batches(tasks) on one list.
SplitCall(ts) ==
  /\ splits = <<>>
  /\ splits' = <<[tasks |-> ts, batches |-> SplitTasksIntoBatches(ts)]>>
  /\ UNCHANGED <<now, store, task_queue, result_queue, claimerVars, workerVars,
                 calls, demandVars, swaps, engine, builds, emulated_calls, finisherVars>>

\* read_batch, lines 112-113: the claim statement runs and returns its rows.
ClaimExecute(r) ==
  /\ rpc[r] = "read"
  /\ \E S \in Selections(now) :
       /\ rows' = [rows EXCEPT ![r] = RowList(S)]
       /\ rnow' = [rnow EXCEPT ![r] = now]
  /\ rpc' = [rpc EXCEPT ![r] = "commit"]
  /\ UNCHANGED <<now, store, task_queue, result_queue, batches, workerVars>>
  /\ UNCHANGED aux

\* After the session block: tasks are built from rows and split into batches.
\* With no batch to put, read_batch returns and run() calls it again.
AfterSession(r) ==
  LET bs == SplitTasksIntoBatches(rows[r])
  IN /\ batches' = [batches EXCEPT ![r] = bs]
     /\ rpc' = [rpc EXCEPT ![r] = IF bs = <<>> THEN "read" ELSE "put"]
     /\ rows' = [rows EXCEPT ![r] = IF bs = <<>> THEN <<>> ELSE @]
     /\ rnow' = [rnow EXCEPT ![r] = IF bs = <<>> THEN NULL ELSE @]

\* session.commit(): SET claimed_at = NOW() becomes visible on the returned rows.
ClaimCommit(r) ==
  /\ rpc[r] = "commit"
  /\ tasks' = [id \in TaskIds |->
                 IF id \in Range(rows[r])
                   THEN [tasks[id] EXCEPT !.claimed_at = rnow[r]]
                   ELSE tasks[id]]
  /\ AfterSession(r)
  /\ UNCHANGED <<now, actions, action_accounts, failed_traces, blocks_classified,
                 task_queue, result_queue, workerVars>>
  /\ UNCHANGED aux

\* except Exception: session.rollback(), when session.execute raised: rows
\* is still empty, no batch is put and run() calls read_batch again.
ClaimExecuteFail(r) ==
  /\ rpc[r] = "read"
  /\ rows' = [rows EXCEPT ![r] = <<>>]
  /\ UNCHANGED <<now, store, task_queue, result_queue, rpc, rnow, batches, workerVars>>
  /\ UNCHANGED aux

\* except Exception: session.rollback(), when session.commit() raised: the
\* update is undone, rows keeps what fetchall returned.
ClaimCommitFail(r) ==
  /\ rpc[r] = "commit"
  /\ AfterSession(r)
  /\ UNCHANGED <<now, store, task_queue, result_queue, workerVars>>
  /\ UNCHANGED aux

\* A put that does not wait: the batch is dropped when the queue is full.
ClaimPutDrop(r) ==
  /\ rpc[r] = "put"
  /\ task_queue' = IF Len(task_queue) < prefetch_size
                     THEN Append(task_queue, Head(batches[r]))
                     ELSE task_queue
  /\ batches' = [batches EXCEPT ![r] = Tail(@)]
  /\ rpc' = [rpc EXCEPT ![r] = IF Tail(batches[r]) = <<>> THEN "read" ELSE "put"]
  /\ rows' = [rows EXCEPT ![r] = IF Tail(batches[r]) = <<>> THEN <<>> ELSE @]
  /\ rnow' = [rnow EXCEPT ![r] = IF Tail(batches[r]) = <<>> THEN NULL ELSE @]
  /\ UNCHANGED <<now, store, result_queue, workerVars>>
  /\ UNCHANGED aux

\* self.task_queue.put(batch): blocks while the queue is full.
ClaimPut(r) ==
  /\ rpc[r] = "put"
  /\ Len(task_queue) < prefetch_size
  /\ task_queue' = Append(task_queue, Head(batches[r]))
  /\ batches' = [batches EXCEPT ![r] = Tail(@)]
  /\ rpc' = [rpc EXCEPT ![r] = IF Tail(batches[r]) = <<>> THEN "read" ELSE "put"]
  /\ rows' = [rows EXCEPT ![r] = IF Tail(batches[r]) = <<>> THEN <<>> ELSE @]
  /\ rnow' = [rnow EXCEPT ![r] = IF Tail(batches[r]) = <<>> THEN NULL ELSE @]
  /\ UNCHANGED <<now, store, result_queue, workerVars>>
  /\ UNCHANGED aux

(* ----------------------- per-trace classification --------------------- *)
\* What the rule engine, the serializer and the fallbacks do on a trace
\* depends on the trace and on the interfaces the metadata cache answers at
\* that moment; an evaluation names one such outcome:
\*   ok1, ok2    two classifications of the same trace (the metadata changed)
\*   dup         rule output with the same action key twice
\*   dupacc      rule output with the same action account twice
\*   broken      a composite block marked failed
\*   none        no action; none_raise: and the unknown fallback raises
\*   raise       rule evaluation or serialization raises;
\*   raise2      and create_unknown_action raises too
Evaluations(trace_id) ==
  CASE trace_id = "A" -> {"ok1", "ok2", "dup", "broken", "raise"}
    [] trace_id = "C" -> {"ok1", "dupacc", "none", "none_raise", "raise2"}
    [] OTHER -> {"ok1"}

AllEvaluations == UNION {Evaluations(t) : t \in TraceIds}

\* The evaluations a run draws from: every one, or (metadata that does not
\* change and rules that apply) the first classification only.
EvalAll == [t \in TraceIds |-> Evaluations(t)]
EvalStable == [t \in TraceIds |-> {"ok1"}]
\* Rule output for trace A that always repeats an action key, every other
\* trace classifying.
EvalDupA == [t \in TraceIds |-> IF t = "A" THEN {"dup"} ELSE {"ok1"}]
\* The evaluations the worker-pool runs draw from: one classification, a
\* duplicate key or an exception.
EvalPool == [t \in TraceIds |-> Evaluations(t) \cap {"ok1", "dup", "raise"}]

Action(id, trace, type, accounts) ==
  [action_id |-> id, trace_id |-> trace.trace_id, type |-> type, accounts |-> accounts]

\* process_event_async_with_postprocessing followed by serialize_blocks:
\* (actions, state) when neither raises.
SerializeBlocks(trace, e) ==
  CASE e = "ok1" -> [actions |-> <<Action("a1", trace, "p", <<"u">>)>>, state |-> "ok"]
    [] e = "ok2" -> [actions |-> <<Action("a1", trace, "q", <<"u">>),
                                   Action("a2", trace, "q", <<"v">>)>>, state |-> "ok"]
    [] e = "dup" -> [actions |-> <<Action("a1", trace, "p", <<"u">>),
                                   Action("a1", trace, "p", <<"v">>)>>, state |-> "ok"]
    [] e = "dupacc" -> [actions |-> <<Action("a1", trace, "p", <<"u", "u">>)>>,
                        state |-> "ok"]
    [] e = "broken" -> [actions |-> <<Action("a1", trace, "p", <<"u">>)>>,
                        state |-> "broken"]
    [] OTHER -> [actions |-> <<>>, state |-> "ok"]

EngineRaises(e) == e \in {"raise", "raise2"}

\* create_unknown_action(trace) / the action try_classify_unknown_trace returns.
UnknownAction(trace) == Action("a1", trace, "unknown", <<"u">>)

\* try_classify_unknown_trace(trace), which returns or raises.
TryClassifyUnknownTrace(trace) == <<UnknownAction(trace)>>
TryClassifyUnknownRaises(e) == e \in {"none_raise", "none_raise2"}
CreateUnknownActionRaises(e) == e \in {"raise2", "none_raise2"}

\* An except branch that returns no action.
ProcessTraceFailedMutant(trace) ==
  [trace_id |-> trace.trace_id, state |-> "failed", actions |-> <<>>,
   exc |-> "Exception"]

\* An except branch whose action depends on what an earlier call left.
ProcessTraceFailedShared(trace) ==
  [trace_id |-> trace.trace_id, state |-> "failed",
   actions |-> IF calls = <<>> THEN <<UnknownAction(trace)>> ELSE <<>>,
   exc |-> "Exception"]

\* The except branch of process_trace.
ProcessTraceFailed(trace) ==
  [trace_id |-> trace.trace_id, state |-> "failed",
   actions |-> <<UnknownAction(trace)>>, exc |-> "Exception"]

ProcessTraceFailedBare(trace) ==
  [trace_id |-> trace.trace_id, state |-> "failed", actions |-> <<>>,
   exc |-> "Exception"]

\* A shortcut test that never matches the housekeeping kind.
IsLoneTickTockMutant(trace) ==
  Len(trace.transactions) = 1 /\ trace.transactions[1] = "tick-tock"

\* len(trace.transactions) == 1 and trace.transactions[0].descr == 'tick_tock'
IsLoneTickTock(trace) ==
  Len(trace.transactions) = 1 /\ trace.transactions[1] = "tick_tock"

\* A fallback test that wants more than one transaction.
NeedsFallbackMutant(trace, acts) == Len(acts) = 0 /\ Len(trace.transactions) > 1

\* len(actions) == 0 and len(trace.transactions) > 0
NeedsFallback(trace, acts) == Len(acts) = 0 /\ Len(trace.transactions) > 0

\* process_trace(trace) -> (trace_id, state, actions, exc)
ProcessTrace(trace, e) ==
  IF IsLoneTickTock(trace)
    THEN [trace_id |-> trace.trace_id, state |-> "ok", actions |-> <<>>, exc |-> None]
  ELSE IF \/ EngineRaises(e)
          \/ /\ NeedsFallback(trace, SerializeBlocks(trace, e).actions)
             /\ TryClassifyUnknownRaises(e)
    THEN IF CreateUnknownActionRaises(e)
           THEN ProcessTraceFailedBare(trace)
           ELSE ProcessTraceFailed(trace)
  ELSE LET ser == SerializeBlocks(trace, e)
       IN [trace_id |-> trace.trace_id, state |-> ser.state,
           actions |-> IF NeedsFallback(trace, ser.actions)
                         THEN TryClassifyUnknownTrace(trace)
                         ELSE ser.actions,
           exc |-> None]

\* The calls process_trace makes on its way: of the rule engine with the
\* serializer (lines 490-491), of try_classify_unknown_trace (line 493) and of
\* create_unknown_action (line 499).
ProcessTraceCalls(trace, e) ==
  IF IsLoneTickTock(trace)
    THEN [engine |-> 0, fallback |-> 0, unknown |-> 0]
  ELSE IF EngineRaises(e)
    THEN [engine |-> 1, fallback |-> 0, unknown |-> 1]
  ELSE IF NeedsFallback(trace, SerializeBlocks(trace, e).actions)
    THEN [engine |-> 1, fallback |-> 1,
          unknown |-> IF TryClassifyUnknownRaises(e) THEN 1 ELSE 0]
  ELSE [engine |-> 1, fallback |-> 0, unknown |-> 0]

\* The traces handed to process_trace alone: every transaction list of up to
\* MaxTx ordinary or housekeeping transactions.
TraceInputs ==
  {[trace_id |-> "T", mc_seqno_end |-> 1, nodes_ |-> 1, transactions |-> txs] :
     txs \in UNION {[1..n -> {"ord", "tick_tock"}] : n \in 0..MaxTx}}

\* The outcomes of the engine and the fallbacks on such a trace.
TraceEvaluations == AllEvaluations \cup {"none_raise2"}

\* results = await asyncio.gather(*(process_trace(trace) for trace in traces))
\* for one trace: the call and what it returned.  A run classifies twice.
ClassifyCall(trace, e) ==
  /\ Len(calls) < 2
  /\ calls' = Append(calls, [trace |-> trace, e |-> e,
                             result |-> ProcessTrace(trace, e),
                             ran |-> ProcessTraceCalls(trace, e)])
  /\ UNCHANGED <<now, store, task_queue, result_queue, claimerVars, workerVars,
                 demandVars, swaps, engine, builds, emulated_calls, splits, finisherVars>>

\* process_emulated_task_trace (lines 472-484) on the trace deserialize_event
\* built: the engine and the serializer run on it directly (lines 477-478),
\* trace.transactions[0] is read (line 479) and the actions of an emulated
\* trace lose their trace id (line 481).  An exception leaves the function.
ProcessEmulatedTaskTrace(trace, emulated, e) ==
  IF EngineRaises(e) \/ Len(trace.transactions) = 0
    THEN [raised |-> TRUE, actions |-> <<>>]
  ELSE LET acts == SerializeBlocks(trace, e).actions
       IN [raised |-> FALSE,
           actions |-> IF emulated
                         THEN [i \in DOMAIN acts |-> [acts[i] EXCEPT !.trace_id = None]]
                         ELSE acts]

\* actions = await process_emulated_task_trace(task_id) for one trace: the
\* call and what it returned.
EmulatedCall(trace, emulated, e) ==
  /\ emulated_calls = <<>>
  /\ emulated_calls' = <<[trace |-> trace, emulated |-> emulated, e |-> e,
                          result |-> ProcessEmulatedTaskTrace(trace, emulated, e)]>>
  /\ UNCHANGED <<now, store, task_queue, result_queue, claimerVars, workerVars,
                 calls, demandVars, swaps, engine, builds, splits, finisherVars>>

(* ------------------------------- worker ------------------------------- *)
ActionRow(a) == [action_id |-> a.action_id, trace_id |-> a.trace_id, type |-> a.type]

\* action.get_action_accounts()
GetActionAccounts(a) ==
  [i \in DOMAIN a.accounts |->
     [account |-> a.accounts[i], action_id |-> a.action_id, trace_id |-> a.trace_id]]

NoTx == [delActions |-> {}, delAccounts |-> {}, insActions |-> {}, insAccounts |-> {},
         insFailed |-> {}]

IsTraceBatch(ts) == ClassifierTask(ts[1]).trace_id # None

\* Lines 234-259: the trace ids whose stored actions are purged.
TraceIdsToCleanup(ts) ==
  UNION { LET task == ClassifierTask(ts[i])
          IN IF task.trace_id # None
               THEN {task.trace_id}
             ELSE IF task.mc_seqno # NULL /\ task.mc_seqno \in blocks_classified
               THEN {TraceTable[k].trace_id : k \in
                       {j \in DOMAIN TraceTable :
                          TraceTable[j].mc_seqno_end = task.mc_seqno}}
             ELSE {}
        : i \in DOMAIN ts }

\* Lines 268-280: the traces of the batch, one bulk fetch.
LoadTraces(ts) ==
  IF IsTraceBatch(ts)
    THEN SelectSeq(TraceTable,
           LAMBDA tr : tr.trace_id \in {ClassifierTask(ts[i]).trace_id : i \in DOMAIN ts})
    ELSE SelectSeq(TraceTable,
           LAMBDA tr : /\ tr.mc_seqno_end \in
                            {ClassifierTask(ts[i]).mc_seqno : i \in DOMAIN ts}
                       /\ tr.nodes_ <= big_traces_threshold)

\* Lines 317-329 for the actions of one trace from index j on: st is the
\* staging state (the session's pending rows, the two key sets, the error).
RECURSIVE StageAccounts(_, _, _, _)
StageAccounts(a, accts, k, st) ==
  IF k > Len(accts) THEN st
  ELSE LET key == <<accts[k].account, accts[k].action_id, a.trace_id>>
       IN IF key \in st.inserted_action_accounts
            THEN [st EXCEPT !.error = "Duplicate action account"]
            ELSE StageAccounts(a, accts, k + 1,
                   [st EXCEPT !.inserted_action_accounts = @ \cup {key}])

\* Staging that does not look the action key up in inserted_actions.
RECURSIVE StageActionsMutant(_, _, _)
StageActionsMutant(acts, j, st) ==
  IF j > Len(acts) THEN st
  ELSE LET a == acts[j]
           st1 == StageAccounts(a, GetActionAccounts(a), 1, st)
       IN IF st1.error # None THEN st1
          ELSE StageActionsMutant(acts, j + 1,
                 [st1 EXCEPT !.insAccounts = @ \cup Range(GetActionAccounts(a))])

RECURSIVE StageActions(_, _, _)
StageActions(acts, j, st) ==
  IF j > Len(acts) THEN st
  ELSE LET a == acts[j]
           key == <<a.action_id, a.trace_id>>
       IN IF key \in st.inserted_actions
            THEN [st EXCEPT !.error = "Duplicate action"]
            ELSE LET st1 == StageAccounts(a, GetActionAccounts(a), 1,
                              [st EXCEPT !.inserted_actions = @ \cup {key}])
                 IN IF st1.error # None THEN st1
                    ELSE StageActions(acts, j + 1,
                           [st1 EXCEPT !.insAccounts =
                                          @ \cup Range(GetActionAccounts(a))])

\* A loop over the results that stops at the first failed trace.
RECURSIVE StageResultsMutant(_, _, _)
StageResultsMutant(res, i, st) ==
  IF i > Len(res) THEN st
  ELSE LET r == res[i]
       IN IF r.state = "ok" \/ r.state = "broken"
            THEN LET st1 == StageActions(r.actions, 1,
                              [st EXCEPT !.insActions =
                                 @ \cup {ActionRow(r.actions[j]) : j \in DOMAIN r.actions}])
                 IN IF st1.error # None THEN st1
                    ELSE IF r.state = "ok"
                      THEN StageResultsMutant(res, i + 1, st1)
                      ELSE StageResultsMutant(res, i + 1,
                             [st1 EXCEPT !.insFailed = @ \cup
                                {[trace_id |-> r.trace_id, broken |-> TRUE,
                                  error |-> None]}])
            ELSE [st EXCEPT !.insFailed = @ \cup
                    {[trace_id |-> r.trace_id, broken |-> FALSE, error |-> r.exc]}]

\* A quarantine row that is never marked broken.
FailureRowMutant(r) ==
  [trace_id |-> r.trace_id, broken |-> FALSE,
   error |-> IF r.state = "broken" THEN None ELSE r.exc]

\* Lines 333-340: the _classifier_failed_traces row of a broken or failed
\* result.
FailureRow(r) ==
  IF r.state = "broken"
    THEN [trace_id |-> r.trace_id, broken |-> TRUE, error |-> None]
    ELSE [trace_id |-> r.trace_id, broken |-> FALSE, error |-> r.exc]

\* Lines 303-342 for the results from index i on.
RECURSIVE StageResults(_, _, _)
StageResults(res, i, st) ==
  IF i > Len(res) THEN st
  ELSE LET r == res[i]
       IN IF r.state = "ok" \/ r.state = "broken"
            THEN LET st1 == StageActions(r.actions, 1,
                              [st EXCEPT !.insActions =
                                 @ \cup {ActionRow(r.actions[j]) : j \in DOMAIN r.actions}])
                 IN IF st1.error # None THEN st1
                    ELSE IF r.state = "ok"
                      THEN StageResults(res, i + 1, st1)
                      ELSE StageResults(res, i + 1,
                             [st1 EXCEPT !.insFailed = @ \cup {FailureRow(r)}])
            ELSE StageResults(res, i + 1,
                   [st EXCEPT !.insFailed = @ \cup {FailureRow(r)}])

NoStage == [insActions |-> {}, insAccounts |-> {}, insFailed |-> {},
            inserted_actions |-> {}, inserted_action_accounts |-> {}, error |-> None]

\* INSERT ... ON CONFLICT DO NOTHING (add_on_conflict_ignore): a row whose
\* key is already in the table is dropped.
InsertActionsIgnore(table, new) ==
  table \cup {a \in new : ~\E b \in table :
                 b.action_id = a.action_id /\ b.trace_id = a.trace_id}

\* An insert that replaces the quarantine row a trace already has.
InsertFailedUpsert(table, new) ==
  {b \in table : ~\E f \in new : f.trace_id = b.trace_id} \cup new

\* insert into _classifier_failed_traces ... on conflict do nothing: the
\* table is conflict-ignored on the trace id.
InsertFailedIgnore(table, new) ==
  table \cup {f \in new : ~\E b \in table : b.trace_id = f.trace_id}

\* An outcome whose total counts the ok traces only.
BatchOutcomeOkOnly(res) ==
  <<TRUE, Cardinality({i \in DOMAIN res : res[i].state = "ok"}),
    Cardinality({i \in DOMAIN res : res[i].state = "failed"}),
    Cardinality({i \in DOMAIN res : res[i].state = "broken"})>>

\* The outcome process_trace_batch_async returns after its commit.
BatchOutcome(res) ==
  <<TRUE, Len(res),
    Cardinality({i \in DOMAIN res : res[i].state = "failed"}),
    Cardinality({i \in DOMAIN res : res[i].state = "broken"})>>

\* Lines 229-266: the purge of the superseded actions and action accounts,
\* as the open transaction holds it.
Cleanup(ts) ==
  LET cleanup == TraceIdsToCleanup(ts)
  IN [NoTx EXCEPT !.delActions = {a \in actions : a.trace_id \in cleanup},
                  !.delAccounts = {a \in action_accounts : a.trace_id \in cleanup}]

\* Lines 203-344: a batch is taken from the queue, the superseded rows are
\* purged, the traces loaded and classified (asyncio.gather) and the results
\* staged in the open transaction; a duplicate key raises.
WorkerProcess(w, E) ==
  /\ wpc[w] = "idle"
  /\ task_queue # <<>>
  /\ task_queue' = Tail(task_queue)
  /\ wtasks' = [wtasks EXCEPT ![w] = Head(task_queue)]
  /\ LET ts == Head(task_queue)
         traces == LoadTraces(ts)
     IN \E ev \in [{traces[i].trace_id : i \in DOMAIN traces} -> AllEvaluations] :
          /\ \A t \in DOMAIN ev : ev[t] \in E[t]
          /\ LET res == [i \in DOMAIN traces |->
                           ProcessTrace(traces[i], ev[traces[i].trace_id])]
                 st == StageResults(res, 1, NoStage)
             IN /\ evals' = [evals EXCEPT ![w] = ev]
                /\ results' = [results EXCEPT ![w] = res]
                /\ tx' = [tx EXCEPT ![w] = [Cleanup(ts) EXCEPT
                                              !.insActions = st.insActions,
                                              !.insAccounts = st.insAccounts,
                                              !.insFailed = st.insFailed]]
                /\ last_error' = [last_error EXCEPT ![w] = st.error]
                /\ wpc' = [wpc EXCEPT ![w] = IF st.error = None THEN "finish" ELSE "raised"]
  /\ UNCHANGED <<now, store, result_queue, claimerVars>>
  /\ UNCHANGED aux

\* An await of lines 224-293 raises (the store, the metadata cache, a
\* cancelled coroutine) before or after the purge.
WorkerProcessRaise(w) ==
  /\ wpc[w] = "idle"
  /\ task_queue # <<>>
  /\ task_queue' = Tail(task_queue)
  /\ wtasks' = [wtasks EXCEPT ![w] = Head(task_queue)]
  /\ tx' \in {[tx EXCEPT ![w] = NoTx], [tx EXCEPT ![w] = Cleanup(Head(task_queue))]}
  /\ last_error' = [last_error EXCEPT ![w] = "Exception"]
  /\ wpc' = [wpc EXCEPT ![w] = "raised"]
  /\ UNCHANGED <<now, store, result_queue, claimerVars, evals, results>>
  /\ UNCHANGED aux

\* A commit that keeps the tasks of a batch in which a trace failed.
CommitMutant(w) ==
  /\ actions' = InsertActionsIgnore(actions \ tx[w].delActions, tx[w].insActions)
  /\ action_accounts' = (action_accounts \ tx[w].delAccounts) \cup tx[w].insAccounts
  /\ failed_traces' = InsertFailedIgnore(failed_traces, tx[w].insFailed)
  /\ blocks_classified' =
       IF IsTraceBatch(wtasks[w]) THEN blocks_classified
       ELSE blocks_classified \cup
              {ClassifierTask(wtasks[w][i]).mc_seqno : i \in DOMAIN wtasks[w]}
  /\ tasks' = [id \in TaskIds |->
                 IF /\ id \in Range(wtasks[w])
                    /\ \A i \in DOMAIN results[w] : results[w][i].state # "failed"
                   THEN [present |-> FALSE, claimed_at |-> NULL]
                   ELSE tasks[id]]

\* A commit without the deletion of the tasks.
CommitNoDelete(w) ==
  /\ actions' = InsertActionsIgnore(actions \ tx[w].delActions, tx[w].insActions)
  /\ action_accounts' = (action_accounts \ tx[w].delAccounts) \cup tx[w].insAccounts
  /\ failed_traces' = InsertFailedIgnore(failed_traces, tx[w].insFailed)
  /\ blocks_classified' =
       IF IsTraceBatch(wtasks[w]) THEN blocks_classified
       ELSE blocks_classified \cup
              {ClassifierTask(wtasks[w][i]).mc_seqno : i \in DOMAIN wtasks[w]}
  /\ UNCHANGED tasks

\* session.commit() of the batch transaction (line 352) applied to the
\* tables: the purge, the staged rows under the conflict policy, the
\* blocks_classified rows of a sequence batch and the deletion of the tasks.
Commit(w) ==
  /\ actions' = InsertActionsIgnore(actions \ tx[w].delActions, tx[w].insActions)
  /\ action_accounts' = (action_accounts \ tx[w].delAccounts) \cup tx[w].insAccounts
  /\ failed_traces' = InsertFailedIgnore(failed_traces, tx[w].insFailed)
  /\ blocks_classified' =
       IF IsTraceBatch(wtasks[w]) THEN blocks_classified
       ELSE blocks_classified \cup
              {ClassifierTask(wtasks[w][i]).mc_seqno : i \in DOMAIN wtasks[w]}
  /\ tasks' = [id \in TaskIds |->
                 IF id \in Range(wtasks[w])
                   THEN [present |-> FALSE, claimed_at |-> NULL]
                   ELSE tasks[id]]

\* A purge that ran outside the transaction: the rollback does not undo it.
RollbackMutant(w) ==
  /\ actions' = actions \ tx[w].delActions
  /\ action_accounts' = action_accounts \ tx[w].delAccounts
  /\ UNCHANGED <<tasks, failed_traces, blocks_classified>>

\* session.rollback() (line 357): nothing of the transaction reaches the tables.
Rollback(w) == UNCHANGED store

\* A failure path that reports the batch as done.
FailureOutcomeMutant == <<TRUE, 0, 0, 0>>

\* return False, 0, 0, 0 (line 358); ok, total, failed, broken = False, 0, 0, 0
\* (lines 209 and 212).
FailureOutcome == <<FALSE, 0, 0, 0>>

\* Lines 345-352 and 359, then result_queue.put (line 213).  The DELETE
\* waits for a row that a claim transaction holds locked.
WorkerFinish(w) ==
  /\ wpc[w] = "finish"
  /\ \A i \in DOMAIN wtasks[w] : ~Locked(wtasks[w][i])
  /\ Len(result_queue) < MaxResults
  /\ Commit(w)
  /\ result_queue' = Append(result_queue, BatchOutcome(results[w]))
  /\ wpc' = [wpc EXCEPT ![w] = "idle"]
  /\ wtasks' = [wtasks EXCEPT ![w] = <<>>]
  /\ tx' = [tx EXCEPT ![w] = NoTx]
  /\ evals' = [evals EXCEPT ![w] = <<>>]
  /\ results' = [results EXCEPT ![w] = <<>>]
  /\ UNCHANGED <<now, task_queue, claimerVars, last_error>>
  /\ UNCHANGED aux

\* An await of lines 345-352 raises (a statement or the commit fails).
WorkerFinishRaise(w) ==
  /\ wpc[w] = "finish"
  /\ last_error' = [last_error EXCEPT ![w] = "Exception"]
  /\ wpc' = [wpc EXCEPT ![w] = "raised"]
  /\ UNCHANGED <<now, store, task_queue, result_queue, claimerVars, wtasks, tx, evals,
                 results>>
  /\ UNCHANGED aux

\* Lines 355-358 and 206-213: the except branch rolls the transaction back
\* and returns False, 0, 0, 0, which process_one_batch reports.
WorkerRollback(w) ==
  /\ wpc[w] = "raised"
  /\ Len(result_queue) < MaxResults
  /\ Rollback(w)
  /\ result_queue' = Append(result_queue, FailureOutcome)
  /\ wpc' = [wpc EXCEPT ![w] = "idle"]
  /\ tx' = [tx EXCEPT ![w] = NoTx]
  /\ evals' = [evals EXCEPT ![w] = <<>>]
  /\ results' = [results EXCEPT ![w] = <<>>]
  /\ UNCHANGED <<now, task_queue, claimerVars, wtasks, last_error>>
  /\ UNCHANGED aux

\* A purge that reached the tables before the worker ended.
AbortMutant(w) ==
  /\ actions' = actions \ tx[w].delActions
  /\ action_accounts' = action_accounts \ tx[w].delAccounts
  /\ UNCHANGED <<tasks, failed_traces, blocks_classified>>

\* The session of a worker that ended is closed without a commit (the
\* statements of lines 229-351 run in one transaction, committed at line 352
\* only): the store drops the open transaction.
Abort(w) == UNCHANGED store

\* The worker process ends while its batch transaction is open:
\* worker.terminate() (lines 443-445) or a signal.  It never runs again.
WorkerKill(w) ==
  /\ wpc[w] \in {"finish", "raised"}
  /\ Abort(w)
  /\ wpc' = [wpc EXCEPT ![w] = "dead"]
  /\ tx' = [tx EXCEPT ![w] = NoTx]
  /\ UNCHANGED <<now, task_queue, result_queue, claimerVars, wtasks, evals, results,
                 last_error>>
  /\ UNCHANGED aux

(* ------------------------------ finisher ----------------------------- *)
\* What the finisher's steps leave alone.
notFinisher ==
  <<now, actions, action_accounts, failed_traces, blocks_classified, task_queue,
    result_queue, claimerVars, workerVars, calls, demandVars, swaps, engine, builds, emulated_calls, splits>>

\* self.finished_queue.put(task.id): the id of a task of the backlog is handed
\* to the finisher, once.
FinishedPut(id) ==
  /\ id \notin finished
  /\ tasks[id].present
  /\ finished_queue' = Append(finished_queue, id)
  /\ finished' = finished \cup {id}
  /\ UNCHANGED <<tasks, fpc, ftasks, since_commit, notFinisher>>

\* get(timeout=1) on the empty queue gives up after a second (except: pass);
\* a get on a queue that holds an id returns at once.  since_commit stops
\* counting at FlushSeconds, from where on the window test fails whatever the
\* time.
FinisherClock ==
  /\ fpc = "collect"
  /\ finished_queue = <<>>
  /\ since_commit < FlushSeconds
  /\ since_commit' = since_commit + GetTimeout
  /\ UNCHANGED <<tasks, finished_queue, finished, fpc, ftasks, notFinisher>>

\* while (datetime.now() - self.last_commit).total_seconds() < 10:
\*     result = self.finished_queue.get(timeout=1); tasks.append(result)
FinisherGet ==
  /\ fpc = "collect"
  /\ since_commit < FlushSeconds
  /\ finished_queue # <<>>
  /\ ftasks' = Append(ftasks, Head(finished_queue))
  /\ finished_queue' = Tail(finished_queue)
  /\ UNCHANGED <<tasks, finished, fpc, since_commit, notFinisher>>

\* The window is over and len(tasks) > 0.  With no task collected
\* read_finished_tasks returns, last_commit stays as it is and run() calls it
\* again: no variable changes.
FinisherFlush ==
  /\ fpc = "collect"
  /\ since_commit >= FlushSeconds
  /\ ftasks # <<>>
  /\ fpc' = "delete"
  /\ UNCHANGED <<tasks, finished_queue, finished, ftasks, since_commit, notFinisher>>

\* delete from _classifier_tasks where id in (...); session.commit();
\* self.last_commit = datetime.now(); the local list ends with the call.
FinisherDelete ==
  /\ fpc = "delete"
  /\ tasks' = [id \in TaskIds |->
                 IF id \in Range(ftasks) THEN [present |-> FALSE, claimed_at |-> NULL]
                 ELSE tasks[id]]
  /\ ftasks' = <<>>
  /\ since_commit' = 0
  /\ fpc' = "collect"
  /\ UNCHANGED <<finished_queue, finished, notFinisher>>

\* except Exception: session.rollback(); self.last_commit = datetime.now();
\* the local list ends with the call.
FinisherDeleteFail ==
  /\ fpc = "delete"
  /\ ftasks' = <<>>
  /\ since_commit' = 0
  /\ fpc' = "collect"
  /\ UNCHANGED <<tasks, finished_queue, finished, notFinisher>>

(* ---------------------------- on-demand path ------------------------- *)
\* The request ids clients publish, each once.
RequestIds == {"t1", "t2"}

\* The trace of a request, as deserialize_event builds it from result_<id>.
RequestTrace(id) ==
  [trace_id |-> id, mc_seqno_end |-> NULL, nodes_ |-> 1, transactions |-> <<"ord">>]

\* What the pipeline-independent loop leaves alone.
pipelineVars ==
  <<now, store, task_queue, result_queue, claimerVars, workerVars, calls, swaps, engine, builds, emulated_calls,
    splits, finisherVars>>

\* A client publishes a request id on settings.emulated_traces_redis_channel.
Request(id) ==
  /\ id \notin Range(channel) \cup received
  /\ channel' = Append(channel, id)
  /\ UNCHANGED <<received, dpc, cur, redis_result, redis_error, published, pipelineVars>>

\* message = await pubsub.get_message(timeout=1); task_id = message['data']
GetMessage ==
  /\ dpc = "get"
  /\ channel # <<>>
  /\ cur' = Head(channel)
  /\ channel' = Tail(channel)
  /\ received' = received \cup {Head(channel)}
  /\ dpc' = "process"
  /\ UNCHANGED <<redis_result, redis_error, published, pipelineVars>>

\* process_emulated_task_trace(task_id) returns the serialized actions, then
\* hset("result_" + task_id, 'actions', ...) stores them.
ProcessEmulated ==
  /\ dpc = "process"
  /\ \E e \in {"ok1", "ok2", "none"} :
       redis_result' =
         [id \in DOMAIN redis_result \cup {cur} |->
            IF id = cur THEN ProcessEmulatedTaskTrace(RequestTrace(cur), TRUE, e).actions
            ELSE redis_result[id]]
  /\ dpc' = "publish_success"
  /\ UNCHANGED <<channel, received, cur, redis_error, published, pipelineVars>>

\* process_emulated_task_trace or the hset raises.
ProcessEmulatedRaise ==
  /\ dpc = "process"
  /\ dpc' = "set_error"
  /\ UNCHANGED <<channel, received, cur, redis_result, redis_error, published,
                 pipelineVars>>

\* publish("classifier_result_channel_" + task_id, "success")
PublishSuccess ==
  /\ dpc = "publish_success"
  /\ published' = Append(published, <<cur, "success">>)
  /\ dpc' = "get"
  /\ cur' = None
  /\ UNCHANGED <<channel, received, redis_result, redis_error, pipelineVars>>

\* The print or the publish of "success" raises.
PublishSuccessRaise ==
  /\ dpc = "publish_success"
  /\ dpc' = "set_error"
  /\ UNCHANGED <<channel, received, cur, redis_result, redis_error, published,
                 pipelineVars>>

\* except Exception as e: redis.client.set("classifier_error_" + task_id, str(e))
SetError ==
  /\ dpc = "set_error"
  /\ redis_error' = [id \in DOMAIN redis_error \cup {cur} |-> "Exception"]
  /\ dpc' = "publish_error"
  /\ UNCHANGED <<channel, received, cur, redis_result, published, pipelineVars>>

\* publish("classifier_result_channel_" + task_id, "error")
PublishError ==
  /\ dpc = "publish_error"
  /\ published' = Append(published, <<cur, "error">>)
  /\ dpc' = "get"
  /\ cur' = None
  /\ UNCHANGED <<channel, received, redis_result, redis_error, pipelineVars>>

\* A call of the except branch raises: the exception leaves the loop and
\* start_emulated_task_traces_processing ends.
HandlerRaise ==
  /\ dpc \in {"set_error", "publish_error"}
  /\ dpc' = "dead"
  /\ UNCHANGED <<channel, received, cur, redis_result, redis_error, published,
                 pipelineVars>>

OnDemand ==
  \/ GetMessage
  \/ ProcessEmulated
  \/ ProcessEmulatedRaise
  \/ PublishSuccess
  \/ PublishSuccessRaise
  \/ SetError
  \/ PublishError
  \/ HandlerRaise

(* ---------------------------- StonFi swap rule ------------------------ *)
stonfi_swap_ok_exit_code == "0xc64370e5"
stonfi_swap_ok_ref_exit_code == "0x45078540"
stonfi_swap_no_liq_exit_code == "0x5ffe1295"
stonfi_swap_reserve_err_exit_code == "0x38976e9b"
stonfi_sender_related_exit_codes ==
  {stonfi_swap_reserve_err_exit_code, stonfi_swap_no_liq_exit_code,
   stonfi_swap_ok_exit_code}

\* The exit codes a payment request may carry: the four named ones and one
\* that the rule does not know.
ExitCodes == stonfi_sender_related_exit_codes \cup {stonfi_swap_ok_ref_exit_code, "0x0"}

Amounts == 0 .. MaxAmount

\* Amount(value): the wrapper of a coins value.
Amount(value) == [value |-> value]

\* A StonfiPaymentRequest body.
PaymentRequests == [amount0_out : Amounts, amount1_out : Amounts, exit_code : ExitCodes]

\* The matched payment requests: the rule's sequence gives one, the search in
\* other_blocks may find a second one.
PaymentRequestLists ==
  {<<p>> : p \in PaymentRequests} \cup {<<p, q>> : p \in PaymentRequests, q \in PaymentRequests}

\* A StonfiSwapMessage body.
SwapMessages == [amount : Amounts]

PaymentAmountMutant(payment_request) ==
  IF payment_request.amount0_out >= 0 THEN payment_request.amount0_out
  ELSE payment_request.amount1_out

\* amount = amount0_out if amount0_out > 0 else amount1_out
PaymentAmount(payment_request) ==
  IF payment_request.amount0_out > 0 THEN payment_request.amount0_out
  ELSE payment_request.amount1_out

\* addr = token0_out if amount0_out > 0 else token1_out: the address field
\* of the i-th payment request the loop reads.
PaymentAddr(payment_request, i) ==
  [request |-> i,
   field |-> IF payment_request.amount0_out > 0 THEN "token0_out" ELSE "token1_out"]

\* out_addr = None, ref_addr = None
NoAddr == [request |-> NULL, field |-> None]

\* One pass of the loop over the payment requests; acc holds out_amt, out_addr,
\* ref_amt, ref_addr, success_swap and the payment request whose jetton
\* transfer is the outgoing one.
PaymentStep(acc, payment_request, i) ==
  LET amount == PaymentAmount(payment_request)
      addr == PaymentAddr(payment_request, i) IN
  IF payment_request.exit_code \in stonfi_sender_related_exit_codes
  THEN LET s == [acc EXCEPT !.success_swap =
                     (payment_request.exit_code = stonfi_swap_ok_exit_code)] IN
       IF s.out_amt = NULL
       THEN [s EXCEPT !.outgoing = i, !.out_amt = amount, !.out_addr = addr]
       ELSE IF s.out_amt < amount
       THEN [s EXCEPT !.outgoing = i, !.ref_amt = s.out_amt, !.ref_addr = s.out_addr,
                      !.out_amt = amount, !.out_addr = addr]
       ELSE s
  ELSE IF payment_request.exit_code = stonfi_swap_ok_ref_exit_code
  THEN [acc EXCEPT !.ref_amt = amount, !.ref_addr = addr]
  ELSE acc

RECURSIVE PaymentLoop(_, _, _)
PaymentLoop(acc, payment_requests, i) ==
  IF i > Len(payment_requests) THEN acc
  ELSE PaymentLoop(PaymentStep(acc, payment_requests[i], i), payment_requests, i + 1)

\* The loop of _get_block_data over the payment requests.
PaymentRequestsLoop(payment_requests) ==
  PaymentLoop([out_amt |-> NULL, out_addr |-> NoAddr, ref_amt |-> NULL,
               ref_addr |-> NoAddr, outgoing |-> NULL, success_swap |-> FALSE],
              payment_requests, 1)

\* _get_block_data raises when no payment request gave the outgoing side:
\* out_addr is None and out_addr.to_str raises.
GetBlockDataRaises(payment_requests) ==
  PaymentRequestsLoop(payment_requests).out_amt = NULL

\* _get_block_data: the payload of the swap block.
GetBlockData(swap_message, payment_requests) ==
  LET acc == PaymentRequestsLoop(payment_requests) IN
       [dex |-> "stonfi",
        dex_incoming_transfer |-> [amount |-> Amount(swap_message.amount)],
        dex_outgoing_transfer |-> [asset |-> [jetton_of |-> acc.out_addr],
                                   amount |-> Amount(acc.out_amt),
                                   transfer_of |-> acc.outgoing],
        referral_amount |-> Amount(acc.ref_amt),
        referral_address |-> acc.ref_addr,
        peer_swaps |-> <<>>,
        success |-> acc.success_swap]

\* JettonSwapBlock(data), with new_block.failed = True unless data['success'].
JettonSwapBlock(data) ==
  [btype |-> "jetton_swap", data |-> data, failed |-> ~data.success]

\* A block of a match, named by the part it plays in the rule's pattern.
Blk(kind, i) == [kind |-> kind, i |-> i]

\* The anchor of a match: the block argument of build_block.
Anchor == Blk("block", 0)

\* The other_blocks of a StonFi match: the swap call, the payment requests
\* and the jetton transfer after each of them.
StonfiOtherBlocks(payment_requests) ==
  {Blk("swap_call", 0)}
    \cup {Blk("payment_request", i) : i \in DOMAIN payment_requests}
    \cup {Blk("jetton_transfer", i) : i \in DOMAIN payment_requests}

\* Lines 119-123: a payment request with the OK_REF exit code is taken out of
\* other_blocks with every block after it (bfs_iter).
StonfiRemoved(payment_requests) ==
  UNION {{Blk("payment_request", i), Blk("jetton_transfer", i)} :
           i \in {j \in DOMAIN payment_requests :
                    /\ payment_requests[j].exit_code
                         \notin stonfi_sender_related_exit_codes
                    /\ payment_requests[j].exit_code = stonfi_swap_ok_ref_exit_code}}

\* include = [block]; include.extend(other_blocks) (lines 205-206), on the
\* list _get_block_data has shortened.
StonfiInclude(payment_requests) ==
  {Anchor} \cup (StonfiOtherBlocks(payment_requests) \ StonfiRemoved(payment_requests))

\* StonfiSwapBlockMatcher.build_block: the blocks returned, the blocks handed
\* to merge_blocks and the blocks whose broken flag the build sets.
BuildBlock(swap_message, payment_requests) ==
  IF GetBlockDataRaises(payment_requests)
    THEN [raised |-> TRUE, blocks |-> <<>>, merged |-> {}, broken |-> {}]
  ELSE [raised |-> FALSE,
        blocks |-> <<JettonSwapBlock(GetBlockData(swap_message, payment_requests))>>,
        merged |-> StonfiInclude(payment_requests),
        broken |-> {}]

\* The rule builds the block of one match; a run builds one match.
StonfiSwapBuild(swap_message, payment_requests) ==
  /\ swaps = <<>> /\ builds = <<>>
  /\ swaps' = <<[swap_message |-> swap_message,
                 payment_requests |-> payment_requests,
                 block |-> Anchor,
                 other_blocks |-> StonfiOtherBlocks(payment_requests),
                 built |-> BuildBlock(swap_message, payment_requests)]>>
  /\ UNCHANGED <<now, store, task_queue, result_queue, claimerVars, workerVars,
                 calls, demandVars, engine, builds, emulated_calls, splits, finisherVars>>

(* ----------------- StonFi v2, Dedust, Tonco, Coffee ------------------- *)
\* What the steps of these rules leave alone.
notBuilds ==
  <<now, store, task_queue, result_queue, claimerVars, workerVars, calls, demandVars,
    swaps, engine, emulated_calls, splits, finisherVars>>

\* The hops of a swap chain, in the order of their logical time; the first
\* is the anchor.
HopLists(values) == UNION {[1..n -> values] : n \in 1..2}

\* JettonSwapBlock(data) followed by new_block.failed = failed.
NewSwapBlock(data, failed) == [btype |-> "jetton_swap", data |-> data, failed |-> failed]

\* A build that returns its blocks without merging any.
ReturnedUnmerged(blocks, merged, broken) ==
  [raised |-> FALSE, blocks |-> blocks, merged |-> {}, broken |-> broken]

\* What a build_block call leaves: the blocks it returns, the blocks it hands
\* to merge_blocks and the blocks whose broken flag it sets.
Returned(blocks, merged, broken) ==
  [raised |-> FALSE, blocks |-> blocks, merged |-> merged, broken |-> broken]

\* A build that returns the empty list, and one that raises.
Declined == Returned(<<>>, {}, {})

Raised(broken) == [raised |-> TRUE, blocks |-> <<>>, merged |-> {}, broken |-> broken]

\* The hops i of a chain, from the second on, that satisfy Test.
LaterHops(n, Test(_)) == SelectSeq([i \in 1..(n - 1) |-> i + 1], Test)

\* A structural match of StonfiV2SwapBlockMatcher: the exit code of each
\* hop's pay-to, whether every hop's jetton wallet is known (line 315),
\* whether the addresses read at lines 374 and 389 are keys of
\* pool_addr_jetton_map, whether the optional out_transfer was matched,
\* whether a PTonTransfer call follows it and its has_internal_transfer.
StonfiV2Matches ==
  [pay_to : HopLists({stonfi_swap_ok_exit_code, stonfi_swap_no_liq_exit_code}),
   jettons_known : BOOLEAN, assets_mapped : BOOLEAN, out_transfer : BOOLEAN,
   pton_transfer : BOOLEAN, has_internal_transfer : BOOLEAN]

StonfiV2OtherBlocks(m) ==
  {Blk("in_transfer", 0)}
    \cup {Blk("payout", i) : i \in DOMAIN m.pay_to}
    \cup {Blk("peer_swap", i) : i \in DOMAIN m.pay_to \ {1}}
    \cup (IF m.out_transfer THEN {Blk("out_transfer", 0)} ELSE {})

\* Lines 295-298: ok is False as soon as one pay-to has another exit code
\* than 0xc64370e5.
StonfiV2Ok(m) == \A i \in DOMAIN m.pay_to : m.pay_to[i] = stonfi_swap_ok_exit_code

\* Lines 323-326: block.broken = True when a jetton wallet is unknown.
StonfiV2Broken(m) == IF m.jettons_known THEN {} ELSE {Anchor}

\* Lines 360-391 and 431: the hops listed in peer_swaps.
StonfiV2PeerSwaps(m) ==
  LET n == Len(m.pay_to)
      peer_swaps ==
        IF n > 1
          THEN <<1>> \o (IF m.pay_to[1] = stonfi_swap_ok_exit_code
                           THEN LaterHops(n, LAMBDA i :
                                               m.pay_to[i] = stonfi_swap_ok_exit_code)
                           ELSE <<>>)
          ELSE <<>>
  IN IF Len(peer_swaps) <= 1 THEN <<>> ELSE peer_swaps

\* The build raises: a key missing from pool_addr_jetton_map (lines 374, 389),
\* out_transfer is None (line 395), or no PTonTransfer follows an out
\* transfer without internal transfer (lines 397, 413).
StonfiV2Raises(m) ==
  \/ Len(m.pay_to) > 1 /\ ~m.assets_mapped
  \/ ~m.out_transfer
  \/ ~m.pton_transfer /\ ~m.has_internal_transfer

\* Line 433: [block] + other_blocks + additional_blocks_to_include.
StonfiV2Include(m) ==
  {Anchor} \cup StonfiV2OtherBlocks(m)
    \cup (IF m.pton_transfer THEN {Blk("pton_transfer", 0)} ELSE {})

\* StonfiV2SwapBlockMatcher.build_block
StonfiV2BuildBlock(m) ==
  IF StonfiV2Raises(m) THEN Raised(StonfiV2Broken(m))
  ELSE Returned(<<NewSwapBlock([dex |-> "stonfi_v2",
                                peer_swaps |-> StonfiV2PeerSwaps(m)],
                               ~StonfiV2Ok(m))>>,
                StonfiV2Include(m), StonfiV2Broken(m))

StonfiV2SwapBuild(m) ==
  /\ builds = <<>> /\ swaps = <<>>
  /\ builds' = <<[rule |-> "stonfi_v2", match |-> m, block |-> Anchor,
                  other_blocks |-> StonfiV2OtherBlocks(m),
                  built |-> StonfiV2BuildBlock(m)]>>
  /\ UNCHANGED notBuilds

\* A structural match of DedustSwapBlockMatcher: for each swap call of the
\* chain whether its swap notification is among the blocks, what precedes
\* the anchor (a jetton transfer with the swap payload or with another
\* payload, a DedustSwap call, or neither), the number of payout-from-pool
\* calls, and whether the second hop comes in a SingleLevelWrapper.
DedustMatches ==
  [notified : HopLists(BOOLEAN),
   in_transfer : {"jetton_transfer", "other_payload", "swap_call", "none"},
   payouts : {1, 2}, wrapped : BOOLEAN]

\* The children_blocks of a SingleLevelWrapper of DedustPeerBlockMatcher.
DedustChildren(m, b) ==
  IF b.kind = "wrapper"
    THEN {Blk("peer_swap", b.i)}
           \cup (IF m.notified[b.i] THEN {Blk("notification", b.i)} ELSE {})
    ELSE {b}

DedustOtherBlocks(m) ==
  (IF m.in_transfer = "none" THEN {} ELSE {Blk("in_transfer", 0)})
    \cup {Blk("payout_from_pool", j) : j \in 1..m.payouts}
    \cup {Blk("payout", 0)}
    \cup (IF m.notified[1] THEN {Blk("notification", 1)} ELSE {})
    \cup (IF Len(m.notified) = 1 THEN {}
          ELSE IF m.wrapped THEN {Blk("wrapper", 2)}
          ELSE DedustChildren(m, Blk("wrapper", 2)))

\* Lines 513-518: include, with the children of a wrapper in its place.
DedustInclude(m) ==
  {Anchor} \cup UNION {DedustChildren(m, b) : b \in DedustOtherBlocks(m)}

\* Lines 557-558: return [] when the payload of the incoming transfer is no swap.
DedustDeclines(m) == m.in_transfer = "other_payload"

\* The assertion of line 575 fails, or no swap steps were found (line 599).
DedustRaises(m) == m.payouts # 1 \/ m.in_transfer = "none"

\* Lines 521-538, 604-614 and 650: a hop per notification, or the one
\* synthesized hop, listed when there is more than one.
DedustPeerSwaps(m) ==
  LET found == SelectSeq([i \in DOMAIN m.notified |-> i], LAMBDA i : m.notified[i])
      peer_swaps == IF Len(found) = 0 THEN <<1>> ELSE found
  IN IF Len(peer_swaps) > 1 THEN peer_swaps ELSE <<>>

\* Lines 617-627: failed when a swap call has no notification after it.
DedustFailed(m) == \E i \in DOMAIN m.notified : ~m.notified[i]

\* DedustSwapBlockMatcher.build_block
DedustBuildBlock(m) ==
  IF DedustDeclines(m) THEN Declined
  ELSE IF DedustRaises(m) THEN Raised({})
  ELSE Returned(<<NewSwapBlock([dex |-> "dedust", peer_swaps |-> DedustPeerSwaps(m)],
                               DedustFailed(m))>>,
                DedustInclude(m), {})

DedustSwapBuild(m) ==
  /\ builds = <<>> /\ swaps = <<>>
  /\ builds' = <<[rule |-> "dedust", match |-> m, block |-> Anchor,
                  other_blocks |-> DedustOtherBlocks(m),
                  built |-> DedustBuildBlock(m)]>>
  /\ UNCHANGED notBuilds

\* A structural match of ToncoSwapBlockMatcher: the exit code of each hop's
\* pay-to, whether the wallet lookup of a step raises (lines 861-865), the
\* incoming transfer (a jetton transfer block, or a call whose decoding
\* returns or raises), the last block labelled out_transfer (none, a jetton
\* transfer block whose reading returns or raises, or the JettonTransfer call
\* of final_out_pton_matcher), whether a PTonTransfer call follows it, and
\* whether the first hop's out asset is in jetton_wallet_asset_map.
ToncoMatches ==
  [payout : HopLists({0, 200, 1}), lookup_raises : BOOLEAN,
   in_transfer : {"jetton_transfer", "call_contract", "call_contract_raises"},
   out_transfer : {"none", "jetton_transfer", "jetton_transfer_raises",
                   "call_contract"},
   pton_transfer : BOOLEAN, out_asset_known : BOOLEAN]

ToncoOtherBlocks(m) ==
  {Blk("in_transfer", 0)}
    \cup {Blk("payout", i) : i \in DOMAIN m.payout}
    \cup {Blk("peer_swap", i) : i \in DOMAIN m.payout \ {1}}
    \cup {Blk("intermediate_transfer", i) : i \in DOMAIN m.payout \ {1}}
    \cup (IF m.out_transfer = "none" THEN {} ELSE {Blk("out_transfer", 0)})
    \cup (IF m.out_transfer = "call_contract" /\ m.pton_transfer
            THEN {Blk("pton_transfer", 0)} ELSE {})

\* payout_msg.exit_code != 0 and payout_msg.exit_code != 200
ToncoExitOk(exit_code) == exit_code = 0 \/ exit_code = 200

\* Lines 837-879: ok is False when a pay-to has a non-success exit code or
\* the handling of a step raises.
ToncoOk(m) ==
  /\ \A i \in DOMAIN m.payout : ToncoExitOk(m.payout[i])
  /\ ~m.lookup_raises

\* The return [] of lines 940-945, 952-954, 997-1002 and 1003-1007.
ToncoDeclines(m) ==
  \/ m.in_transfer = "call_contract_raises"
  \/ m.out_transfer \in {"none", "jetton_transfer_raises", "call_contract"}

\* Lines 1040-1125: the hops listed in peer_swap_data.
ToncoPeerSwaps(m) ==
  LET n == Len(m.payout)
  IN IF n > 1 /\ m.out_asset_known
       THEN <<1>> \o LaterHops(n, LAMBDA i : ToncoExitOk(m.payout[i]))
       ELSE <<>>

\* Lines 1182-1198: [block] + other_blocks + additional_blocks and the
\* labelled blocks.
ToncoInclude(m) ==
  {Anchor} \cup ToncoOtherBlocks(m)
    \cup (IF m.pton_transfer THEN {Blk("pton_transfer", 0)} ELSE {})

\* ToncoSwapBlockMatcher.build_block
ToncoBuildBlock(m) ==
  IF ToncoDeclines(m) THEN Declined
  ELSE Returned(<<NewSwapBlock([dex |-> "tonco", peer_swaps |-> ToncoPeerSwaps(m)],
                               ~ToncoOk(m))>>,
                ToncoInclude(m), {})

ToncoSwapBuild(m) ==
  /\ builds = <<>> /\ swaps = <<>>
  /\ builds' = <<[rule |-> "tonco", match |-> m, block |-> Anchor,
                  other_blocks |-> ToncoOtherBlocks(m),
                  built |-> ToncoBuildBlock(m)]>>
  /\ UNCHANGED notBuilds

\* A structural match of CoffeeSwapBlockMatcher: which labelled blocks
\* get_labeled finds and, for each swap call of the chain, whether a success
\* event follows it.
CoffeeMatches ==
  [in_transfer : BOOLEAN, payout : BOOLEAN, out_transfer : BOOLEAN,
   events : HopLists(BOOLEAN)]

CoffeeOtherBlocks(m) ==
  (IF m.in_transfer THEN {Blk("in_transfer", 0)} ELSE {})
    \cup (IF m.payout THEN {Blk("payout", 0)} ELSE {})
    \cup (IF m.out_transfer THEN {Blk("out_transfer", 0)} ELSE {})
    \cup {Blk("peer_swap", i) : i \in DOMAIN m.events \ {1}}
    \cup {Blk("event", i) : i \in {j \in DOMAIN m.events : m.events[j]}}

\* Lines 1299-1320: a hop per swap call with a success event.
CoffeeHops(m) == SelectSeq([i \in DOMAIN m.events |-> i], LAMBDA i : m.events[i])

\* return [] of lines 1283-1284 and 1322-1323.
CoffeeDeclines(m) ==
  \/ ~(m.in_transfer /\ m.payout /\ m.out_transfer)
  \/ CoffeeHops(m) = <<>>

\* A build that merges the matched blocks before it looks at the hops.
CoffeeBuildBlockEager(m) ==
  IF ~(m.in_transfer /\ m.payout /\ m.out_transfer) THEN Declined
  ELSE IF CoffeeHops(m) = <<>>
    THEN Returned(<<>>, {Anchor} \cup CoffeeOtherBlocks(m), {})
  ELSE Returned(<<NewSwapBlock([dex |-> "coffee",
                                peer_swaps |-> IF Len(CoffeeHops(m)) > 1
                                                 THEN CoffeeHops(m) ELSE <<>>],
                               \E i \in DOMAIN m.events : ~m.events[i])>>,
                {Anchor} \cup CoffeeOtherBlocks(m), {})

\* CoffeeSwapBlockMatcher.build_block
CoffeeBuildBlock(m) ==
  IF CoffeeDeclines(m) THEN Declined
  ELSE Returned(<<NewSwapBlock([dex |-> "coffee",
                                peer_swaps |-> IF Len(CoffeeHops(m)) > 1
                                                 THEN CoffeeHops(m) ELSE <<>>],
                               \E i \in DOMAIN m.events : ~m.events[i])>>,
                {Anchor} \cup CoffeeOtherBlocks(m), {})

CoffeeSwapBuild(m) ==
  /\ builds = <<>> /\ swaps = <<>>
  /\ builds' = <<[rule |-> "coffee", match |-> m, block |-> Anchor,
                  other_blocks |-> CoffeeOtherBlocks(m),
                  built |-> CoffeeBuildBlock(m)]>>
  /\ UNCHANGED notBuilds

(* ---------------------- the classification driver --------------------- *)
\* What the driver sees of a rule's match: the matched blocks, the blocks
\* the build merges and whether it returns a block, returns the empty list
\* or raises.
Chain(rule, other_blocks, built) ==
  [rule |-> rule, other_blocks |-> other_blocks, merged |-> built.merged,
   outcome |-> IF built.raised THEN "raise"
               ELSE IF built.blocks = <<>> THEN "none" ELSE "block"]

\* The matches of the five swap rules.
Chains ==
  {Chain("stonfi", StonfiOtherBlocks(payment_requests),
         BuildBlock(swap_message, payment_requests)) :
     swap_message \in SwapMessages, payment_requests \in PaymentRequestLists}
    \cup {Chain("stonfi_v2", StonfiV2OtherBlocks(m), StonfiV2BuildBlock(m)) :
            m \in StonfiV2Matches}
    \cup {Chain("dedust", DedustOtherBlocks(m), DedustBuildBlock(m)) : m \in DedustMatches}
    \cup {Chain("tonco", ToncoOtherBlocks(m), ToncoBuildBlock(m)) : m \in ToncoMatches}
    \cup {Chain("coffee", CoffeeOtherBlocks(m), CoffeeBuildBlock(m)) : m \in CoffeeMatches}

\* What the driver leaves alone.
notEngine ==
  <<now, store, task_queue, result_queue, claimerVars, workerVars, calls, demandVars,
    swaps, builds, emulated_calls, splits, finisherVars>>

\* Block b of the c-th chain of a trace.
Tag(c, b) == [chain |-> c, kind |-> b.kind, i |-> b.i]

\* The candidate blocks of a chain, and the composite block its rule builds.
ChainBlocks(c, chain) == {Tag(c, b) : b \in {Anchor} \cup chain.other_blocks}
Composite(c) == Tag(c, Blk("jetton_swap", 0))

\* The driver before it is given a trace.
Idle == [pc |-> "idle", chains |-> <<>>, pool |-> {}, todo |-> {}, matched |-> FALSE]

\* classify(trace): the candidate pool is the blocks of the trace and a
\* first pass over the rules begins.
EngineStart(chains) ==
  /\ engine = Idle
  /\ engine' = [pc |-> "pass", chains |-> chains,
                pool |-> UNION {ChainBlocks(c, chains[c]) : c \in DOMAIN chains},
                todo |-> DOMAIN chains, matched |-> FALSE]
  /\ UNCHANGED notEngine

\* A rule matches at the anchor of chain c: every expected block is a
\* candidate.
Matches(c) == ChainBlocks(c, engine.chains[c]) \subseteq engine.pool

\* A pass tries the rule of chain c.  A match whose build returns a block
\* replaces the merged blocks by it in the pool; a build that returns the
\* empty list leaves the pool and is no match of the pass; an exception ends
\* the classification.
RuleTry(c) ==
  /\ engine.pc = "pass"
  /\ c \in engine.todo
  /\ engine' =
       IF ~Matches(c) THEN [engine EXCEPT !.todo = @ \ {c}]
       ELSE CASE engine.chains[c].outcome = "raise" -> [engine EXCEPT !.pc = "failed"]
              [] engine.chains[c].outcome = "block" ->
                   [engine EXCEPT
                      !.pool = (@ \ {Tag(c, b) : b \in engine.chains[c].merged})
                                 \cup {Composite(c)},
                      !.todo = @ \ {c},
                      !.matched = TRUE]
              [] OTHER -> [engine EXCEPT !.todo = @ \ {c}]
  /\ UNCHANGED notEngine

\* The end of a full pass: another pass when a rule matched, the fixpoint
\* otherwise.
EndPass ==
  /\ engine.pc = "pass"
  /\ engine.todo = {}
  /\ engine' = IF engine.matched
                 THEN [engine EXCEPT !.todo = DOMAIN engine.chains, !.matched = FALSE]
                 ELSE [engine EXCEPT !.pc = "done"]
  /\ UNCHANGED notEngine

(* ----------------------------- main process --------------------------- *)
\* start_processing_events_from_db: result_queue.get(False)
StatsGet ==
  /\ result_queue # <<>>
  /\ result_queue' = Tail(result_queue)
  /\ UNCHANGED <<now, store, task_queue, claimerVars, workerVars>>
  /\ UNCHANGED aux

\* Time passes.
Tick ==
  /\ now < MaxTime
  /\ now' = now + TickMinutes
  /\ UNCHANGED <<store, task_queue, result_queue, claimerVars, workerVars>>
  /\ UNCHANGED aux

Max(a, b) == IF a > b THEN a ELSE b

\* Time passes beyond MaxTime: the clock reading stays and every lease start
\* (of the rows and of the claim statements under way) moves back instead.
\* An age the claim statement compares with the lease is kept, or stays above
\* the lease once it is.
TickLate ==
  /\ now >= MaxTime
  /\ tasks' = [id \in TaskIds |->
                 IF tasks[id].claimed_at = NULL THEN tasks[id]
                 ELSE [tasks[id] EXCEPT !.claimed_at = Max(0, @ - TickMinutes)]]
  /\ rnow' = [r \in Claimers |->
                IF rnow[r] = NULL THEN NULL ELSE Max(0, rnow[r] - TickMinutes)]
  /\ UNCHANGED <<now, actions, action_accounts, failed_traces, blocks_classified,
                 task_queue, result_queue, rpc, rows, batches, workerVars>>
  /\ UNCHANGED aux

\* The rows an earlier classification of sequence number 1 left: actions
\* of the traces A and B and the blocks_classified row.
PriorActions ==
  {[action_id |-> "a1", trace_id |-> "A", type |-> "p"],
   [action_id |-> "a1", trace_id |-> "B", type |-> "p"]}

PriorAccounts ==
  {[account |-> "u", action_id |-> "a1", trace_id |-> "A"],
   [account |-> "u", action_id |-> "a1", trace_id |-> "B"]}

\* The pipeline starts on the backlog the ingester filled, over tables that
\* are empty or hold an earlier classification.
InitWith(backlog, priors) ==
  /\ now = 0
  /\ tasks = [id \in TaskIds |-> [present |-> id \in backlog, claimed_at |-> NULL]]
  /\ \E prior \in priors :
       /\ actions = IF prior THEN PriorActions ELSE {}
       /\ action_accounts = IF prior THEN PriorAccounts ELSE {}
       /\ blocks_classified = IF prior THEN {1} ELSE {}
  /\ failed_traces = {}
  /\ task_queue = <<>>
  /\ result_queue = <<>>
  /\ rpc = [r \in Claimers |-> "read"]
  /\ rows = [r \in Claimers |-> <<>>]
  /\ rnow = [r \in Claimers |-> NULL]
  /\ batches = [r \in Claimers |-> <<>>]
  /\ wpc = [w \in Workers |-> "idle"]
  /\ wtasks = [w \in Workers |-> <<>>]
  /\ tx = [w \in Workers |-> NoTx]
  /\ evals = [w \in Workers |-> <<>>]
  /\ results = [w \in Workers |-> <<>>]
  /\ last_error = [w \in Workers |-> None]
  /\ calls = <<>>
  /\ channel = <<>>
  /\ received = {}
  /\ dpc = "get"
  /\ cur = None
  /\ redis_result = <<>>
  /\ redis_error = <<>>
  /\ published = <<>>
  /\ emulated_calls = <<>>
  /\ engine = Idle
  /\ builds = <<>>
  /\ swaps = <<>>
  /\ splits = <<>>
  /\ finished_queue = <<>>
  /\ finished = {}
  /\ fpc = "collect"
  /\ ftasks = <<>>
  /\ since_commit = 0

Claimer(r) ==
  \/ ClaimExecute(r)
  \/ ClaimExecuteFail(r)
  \/ ClaimCommit(r)
  \/ ClaimCommitFail(r)
  \/ ClaimPut(r)

\* A claimer whose store never fails.
ClaimerNoFault(r) ==
  \/ ClaimExecute(r)
  \/ ClaimCommit(r)
  \/ ClaimPut(r)

Worker(w, E) ==
  \/ WorkerProcess(w, E)
  \/ WorkerProcessRaise(w)
  \/ WorkerFinish(w)
  \/ WorkerFinishRaise(w)
  \/ WorkerRollback(w)

(* One claimer and one worker over every evaluation: the batch transaction. *)
Init == InitWith({1, 2, 3}, BOOLEAN)

Next ==
  \/ ClaimerNoFault("r1")
  \/ Worker("w1", EvalAll)
  \/ StatsGet
  \/ Tick

Spec == Init /\ [][Next]_vars

(* One claimer and the worker pool: batches that commit, raise on a      *)
(* duplicate key or fail on an exception.                               *)
InitPool == InitWith({1, 2}, BOOLEAN)

NextPool ==
  \/ ClaimerNoFault("r1")
  \/ \E w \in Workers : Worker(w, EvalPool)
  \/ StatsGet
  \/ Tick

SpecPool == InitPool /\ [][NextPool]_vars

(* Two claimers, whose store may fail, and one worker: concurrent claims. *)
InitClaim == InitWith({1, 2}, {FALSE})

NextClaim ==
  \/ \E r \in Claimers : Claimer(r)
  \/ Worker("w1", EvalStable)
  \/ StatsGet
  \/ Tick

SpecClaim == InitClaim /\ [][NextClaim]_vars

(* One claimer whose store never fails and the worker pool: leases. *)
InitLease == InitWith({1, 2, 3}, {FALSE})

NextLease ==
  \/ ClaimerNoFault("r1")
  \/ \E w \in Workers : Worker(w, EvalStable)
  \/ StatsGet
  \/ Tick

SpecLease == InitLease /\ [][NextLease]_vars

(* One claimer and the worker pool, whose workers may be killed. *)
InitCrash == InitWith({1, 2}, {TRUE})

NextCrash ==
  \/ ClaimerNoFault("r1")
  \/ \E w \in Workers : Worker(w, EvalStable)
  \/ \E w \in Workers : WorkerKill(w)
  \/ StatsGet
  \/ Tick

SpecCrash == InitCrash /\ [][NextCrash]_vars

(* process_trace alone, on every trace and evaluation of the bounded sets. *)
InitTrace == InitWith({}, {FALSE})

NextTrace == \E trace \in TraceInputs, e \in TraceEvaluations : ClassifyCall(trace, e)

SpecTrace == InitTrace /\ [][NextTrace]_vars

(* process_emulated_task_trace alone, on the traces process_trace is run on. *)
InitEmulated == InitWith({}, {FALSE})

NextEmulated ==
  \E trace \in TraceInputs, emulated \in BOOLEAN, e \in TraceEvaluations :
    EmulatedCall(trace, emulated, e)

SpecEmulated == InitEmulated /\ [][NextEmulated]_vars

(* _split_tasks_into_batches alone, on every list of claimed rows. *)
InitSplit == InitWith({}, {FALSE})

NextSplit == \E ts \in TaskLists : SplitCall(ts)

SpecSplit == InitSplit /\ [][NextSplit]_vars

\* Weak fairness of a worker's self.task_queue.get(True), with the enabling
\* condition of WorkerProcess written out: a worker that stays idle at a
\* non-empty work queue takes a batch.
WorkerGetFair(w) ==
  \/ []<>~(wpc[w] = "idle" /\ task_queue # <<>>)
  \/ []<><<wpc[w] = "idle" /\ wpc'[w] # "idle">>_vars

(* A finite backlog, no error, every process scheduled fairly.  The end  *)
(* of a batch is strongly fair: result_queue.put never waits in the code, *)
(* the bound MaxResults of the model must not starve a worker.            *)
InitProgress == InitWith({1, 2, 3}, {FALSE})

WorkerNoFault(w) ==
  \/ WorkerProcess(w, EvalStable)
  \/ WorkerFinish(w)

NextProgress ==
  \/ ClaimerNoFault("r1")
  \/ \E w \in Workers : WorkerNoFault(w)
  \/ StatsGet
  \/ Tick
  \/ TickLate

SpecProgress ==
  /\ InitProgress
  /\ [][NextProgress]_vars
  /\ WF_vars(ClaimerNoFault("r1"))
  /\ \A w \in Workers : WorkerGetFair(w) /\ SF_vars(WorkerFinish(w))
  /\ WF_vars(StatsGet)
  /\ WF_vars(Tick)
  /\ WF_vars(TickLate)

(* Two trace tasks of which one fails its batch every time, every process *)
(* scheduled fairly.                                                      *)
InitRetry == InitWith({1, 3}, {FALSE})

WorkerDupA(w) ==
  \/ WorkerProcess(w, EvalDupA)
  \/ WorkerFinish(w)
  \/ WorkerRollback(w)

NextRetry ==
  \/ ClaimerNoFault("r1")
  \/ \E w \in Workers : WorkerDupA(w)
  \/ StatsGet
  \/ Tick
  \/ TickLate

SpecRetry ==
  /\ InitRetry
  /\ [][NextRetry]_vars
  /\ WF_vars(ClaimerNoFault("r1"))
  /\ \A w \in Workers :
       WorkerGetFair(w) /\ SF_vars(WorkerFinish(w)) /\ SF_vars(WorkerRollback(w))
  /\ WF_vars(StatsGet)
  /\ WF_vars(Tick)
  /\ WF_vars(TickLate)

(* The finisher and the producers of finished_queue; the store may fail. *)
InitFinisher == InitWith({1, 2, 3}, {FALSE})

NextFinisher ==
  \/ \E id \in TaskIds : FinishedPut(id)
  \/ FinisherClock
  \/ FinisherGet
  \/ FinisherFlush
  \/ FinisherDelete
  \/ FinisherDeleteFail

SpecFinisher == InitFinisher /\ [][NextFinisher]_vars

(* The finisher with a store that never fails, scheduled fairly. *)
NextFlush ==
  \/ \E id \in TaskIds : FinishedPut(id)
  \/ FinisherClock
  \/ FinisherGet
  \/ FinisherFlush
  \/ FinisherDelete

SpecFlush ==
  /\ InitFinisher
  /\ [][NextFlush]_vars
  /\ WF_vars(FinisherClock)
  /\ WF_vars(FinisherGet)
  /\ WF_vars(FinisherFlush)
  /\ WF_vars(FinisherDelete)

(* The StonFi swap rule on every match. *)
InitSwap == InitWith({}, {FALSE})

NextSwap ==
  \E swap_message \in SwapMessages, payment_requests \in PaymentRequestLists :
    StonfiSwapBuild(swap_message, payment_requests)

SpecSwap == InitSwap /\ [][NextSwap]_vars

(* The swap rules alone, each on every match of its pattern. *)
InitRules == InitWith({}, {FALSE})

NextRules ==
  \/ \E swap_message \in SwapMessages, payment_requests \in PaymentRequestLists :
       StonfiSwapBuild(swap_message, payment_requests)
  \/ \E m \in StonfiV2Matches : StonfiV2SwapBuild(m)
  \/ \E m \in DedustMatches : DedustSwapBuild(m)
  \/ \E m \in ToncoMatches : ToncoSwapBuild(m)
  \/ \E m \in CoffeeMatches : CoffeeSwapBuild(m)

SpecRules == InitRules /\ [][NextRules]_vars

(* The driver on every trace of two swap chains, scheduled fairly. *)
InitEngine == InitWith({}, {FALSE})

\* A step of the running loop.
EngineStep ==
  \/ \E c \in {1, 2} : RuleTry(c)
  \/ EndPass

NextEngine ==
  \/ engine = Idle /\ \E c1, c2 \in Chains : EngineStart(<<c1, c2>>)
  \/ EngineStep

\* Once classify is called, its loop keeps running.
SpecEngine == InitEngine /\ [][NextEngine]_vars /\ WF_vars(EngineStep)

(* The on-demand loop and its clients. *)
InitDemand == InitWith({}, {FALSE})

NextDemand ==
  \/ \E id \in RequestIds : Request(id)
  \/ OnDemand

SpecDemand == InitDemand /\ [][NextDemand]_vars

(* ------------------------------ properties ---------------------------- *)
\* The step in which worker w commits, or rolls back, its batch transaction.
Committed(w) == wpc[w] = "finish" /\ wpc'[w] = "idle"
RolledBack(w) == wpc[w] = "raised" /\ wpc'[w] = "idle"

Abs(x) == IF x < 0 THEN -x ELSE x

\* The batches holding task id that wait in task_queue or are with a worker.
LiveBatches(id) ==
  Cardinality({i \in DOMAIN task_queue : id \in Range(task_queue[i])})
    + Cardinality({w \in Workers : wpc[w] # "idle" /\ id \in Range(wtasks[w])})

\* The traces a task designates.
TracesOf(task) ==
  {tr \in Range(TraceTable) :
     IF task.trace_id # None THEN tr.trace_id = task.trace_id
     ELSE tr.mc_seqno_end = task.mc_seqno}

\* The rows and the keys of a classification result.
ResultRows(r) == {ActionRow(r.actions[j]) : j \in DOMAIN r.actions}
ResultAccounts(r) == UNION {Range(GetActionAccounts(r.actions[j])) : j \in DOMAIN r.actions}
ActionKeys(rs) == {<<a.action_id, a.trace_id>> : a \in rs}
AccountKeys(rs) == {<<a.account, a.action_id, a.trace_id>> : a \in rs}

\* C1: when several claimers run at once, a task row is returned to at most
\* one of them within one lease period: two claimers never hold the same task
\* from claims made LeaseMinutes or less apart.
C1_ClaimedOnce ==
  \A r1, r2 \in Claimers :
    r1 # r2 =>
      \A id \in Range(rows[r1]) \cap Range(rows[r2]) :
        Abs(rnow[r1] - rnow[r2]) > LeaseMinutes

\* C2: while a claimed task's batch waits in the work queue or is with a
\* worker, no second live batch holds the same task.
C2_ExclusiveOwnership == \A id \in TaskIds : LiveBatches(id) <= 1

\* C3: a claim returns a task only if the task was never claimed (or its
\* claim was not stored) or its stored claimed_at is more than LeaseMinutes
\* older than the claim's NOW(): a leased task is not handed out again before
\* the lease has run out.
C3_LeaseExpiry ==
  \A r \in Claimers :
    rpc[r] = "commit" =>
      \A id \in Range(rows[r]) :
        /\ tasks[id].present
        /\ \/ tasks[id].claimed_at = NULL
           \/ tasks[id].claimed_at + LeaseMinutes < rnow[r]

\* A claim has returned a task whose earlier lease ran out.
C3_Witness ==
  \E r \in Claimers :
    /\ rpc[r] = "commit"
    /\ \E id \in Range(rows[r]) : tasks[id].claimed_at # NULL

\* C4: when staging a batch raises on a duplicate key, the rollback leaves
\* every table as it was before the batch: none of the batch's actions,
\* accounts or failure records appears, the purge of the old rows is undone
\* and every task of the batch stays in the backlog.
C4_BatchAtomic ==
  [][\A w \in Workers :
       (RolledBack(w) /\ last_error[w] \in {"Duplicate action", "Duplicate action account"})
         => /\ actions' = actions
            /\ action_accounts' = action_accounts
            /\ failed_traces' = failed_traces
            /\ blocks_classified' = blocks_classified
            /\ tasks' = tasks]_vars

\* A batch that had purged the old rows of trace A was rolled back on a
\* duplicate action: the old rows are in the tables, the tasks in the backlog.
C4_Witness ==
  \E w \in Workers :
    /\ wpc[w] = "idle"
    /\ last_error[w] = "Duplicate action"
    /\ wtasks[w] # <<>>
    /\ "A" \in TraceIdsToCleanup(wtasks[w])
    /\ PriorActions \subseteq actions
    /\ PriorAccounts \subseteq action_accounts
    /\ \A id \in Range(wtasks[w]) : tasks[id].present

\* C5: whatever raises while a batch is processed, the transaction is rolled
\* back, the tables and the tasks' leases are left as they were and the
\* outcome reported for the batch is (False, 0, 0, 0).
C5_FailureReported ==
  [][\A w \in Workers :
       RolledBack(w) => /\ store' = store
                        /\ result_queue' = Append(result_queue, <<FALSE, 0, 0, 0>>)]_vars

\* A batch failed on an exception that is no duplicate: its outcome is the
\* reported one and its tasks are still in the backlog, still leased.
C5_Witness ==
  \E w \in Workers :
    /\ wpc[w] = "idle"
    /\ last_error[w] = "Exception"
    /\ wtasks[w] # <<>>
    /\ result_queue = <<<<FALSE, 0, 0, 0>>>>
    /\ \A id \in Range(wtasks[w]) : tasks[id].present /\ tasks[id].claimed_at # NULL

\* C6: when a batch commits, every trace its tasks designate has a result
\* whose action keys are in the actions table, or a failure record.
C6_EveryTraceRecorded ==
  [][\A w \in Workers :
       Committed(w) =>
         \A id \in Range(wtasks[w]) :
           \A tr \in TracesOf(ClassifierTask(id)) :
             \/ \E i \in DOMAIN results[w] :
                  /\ results[w][i].trace_id = tr.trace_id
                  /\ ActionKeys(ResultRows(results[w][i])) \subseteq ActionKeys(actions')
             \/ \E f \in failed_traces' : f.trace_id = tr.trace_id]_vars

\* C7: when a batch commits, the rows of the actions and action_accounts
\* tables for each trace it classified (as ok or broken) are exactly the rows
\* this classification produced.
C7_StoreEqualsLastRun ==
  [][\A w \in Workers :
       Committed(w) =>
         \A i \in DOMAIN results[w] :
           results[w][i].state # "failed" =>
             /\ {a \in actions' : a.trace_id = results[w][i].trace_id}
                  = ResultRows(results[w][i])
             /\ {a \in action_accounts' : a.trace_id = results[w][i].trace_id}
                  = ResultAccounts(results[w][i])]_vars

C9_FailedActionsPersisted ==
  [][\A w \in Workers :
       Committed(w) =>
         \A i \in DOMAIN results[w] :
           /\ ActionKeys(ResultRows(results[w][i])) \subseteq ActionKeys(actions')
           /\ results[w][i].state = "failed" =>
                \E f \in failed_traces' : f.trace_id = results[w][i].trace_id]_vars

\* An exception escaped the classification of the trace the result is for.
Escaped(w, i) ==
  LET e == evals[w][results[w][i].trace_id]
  IN EngineRaises(e) \/ TryClassifyUnknownRaises(e)

\* C10 as stated: a result that carries an exception has state failed and
\* exactly one action, the synthesized unknown action.
C10_FailedHasUnknownAction ==
  \A w \in Workers :
    \A i \in DOMAIN results[w] :
      results[w][i].exc # None =>
        /\ results[w][i].state = "failed"
        /\ Len(results[w][i].actions) = 1
        /\ results[w][i].actions[1].type = "unknown"

\* C10 amended: when an exception escapes the classification of a trace, the
\* result has state failed, carries the exception and holds exactly the
\* synthesized unknown action, or no action when synthesizing it raised too.
C10_FailedUnknownOrNone ==
  \A w \in Workers :
    \A i \in DOMAIN results[w] :
      Escaped(w, i) =>
        /\ results[w][i].state = "failed"
        /\ results[w][i].exc # None
        /\ results[w][i].actions =
             IF CreateUnknownActionRaises(evals[w][results[w][i].trace_id])
               THEN <<>>
               ELSE <<Action("a1", results[w][i], "unknown", <<"u">>)>>

\* A worker holds a failed result with its exception and one unknown action.
C10_Witness ==
  \E w \in Workers :
    \E i \in DOMAIN results[w] :
      /\ Escaped(w, i)
      /\ results[w][i].state = "failed"
      /\ Len(results[w][i].actions) = 1

\* The actions of the ok and broken results of worker w, in staging order.
StagedActions(w) ==
  Concat([i \in DOMAIN results[w] |->
            IF results[w][i].state = "failed" THEN <<>> ELSE results[w][i].actions])

\* The results of worker w hold an action key or an action-account key twice.
DuplicateInBatch(w) ==
  LET acts == StagedActions(w)
      accs == Concat([j \in DOMAIN acts |-> GetActionAccounts(acts[j])])
  IN \/ \E j, k \in DOMAIN acts :
          j # k /\ acts[j].action_id = acts[k].action_id
                /\ acts[j].trace_id = acts[k].trace_id
     \/ \E j, k \in DOMAIN accs : j # k /\ accs[j] = accs[k]

\* C11: an exception raised by the classification of one trace stays with
\* that trace: process_trace returns a failed result for it, every loaded
\* trace has its result, the batch raises while staging only on a duplicate
\* key, the actions of the other traces are staged, and the commit deletes
\* the batch's tasks.
C11_ErrorsStayLocal ==
  /\ [](\A w \in Workers :
          results[w] # <<>> =>
            LET traces == LoadTraces(wtasks[w])
            IN /\ Len(results[w]) = Len(traces)
               /\ \A i \in DOMAIN results[w] :
                    /\ results[w][i].trace_id = traces[i].trace_id
                    /\ Escaped(w, i) => results[w][i].state = "failed"
               /\ (wpc[w] = "raised" /\ last_error[w] # "Exception") => DuplicateInBatch(w)
               /\ wpc[w] = "finish" =>
                    \A i \in DOMAIN results[w] :
                      results[w][i].state # "failed" =>
                        /\ ResultRows(results[w][i]) \subseteq tx[w].insActions
                        /\ ResultAccounts(results[w][i]) \subseteq tx[w].insAccounts)
  /\ [][\A w \in Workers :
          Committed(w) => \A id \in Range(wtasks[w]) : ~tasks'[id].present]_vars

\* A batch of two traces, one of them failed, committed: the outcome
\* (True, 2, 1, 0) is reported, the failure of trace A is recorded, the action
\* of trace C is stored and both tasks are gone.
C11_Witness ==
  /\ result_queue = <<<<TRUE, 2, 1, 0>>>>
  /\ \E f \in failed_traces : f.trace_id = "A" /\ ~f.broken
  /\ [action_id |-> "a1", trace_id |-> "C", type |-> "p"] \in actions
  /\ ~tasks[1].present /\ ~tasks[3].present

\* C12: when the batch of a sequence task commits, every trace that closes at
\* the task's sequence number, whatever its node count, was loaded and
\* classified in that batch.
C12_AllTracesOfSeqnoClassified ==
  [][\A w \in Workers :
       (Committed(w) /\ ~IsTraceBatch(wtasks[w])) =>
         /\ \A id \in Range(wtasks[w]) :
              /\ ~tasks'[id].present
              /\ ClassifierTask(id).mc_seqno \in blocks_classified'
              /\ \A tr \in TracesOf(ClassifierTask(id)) :
                   \E i \in DOMAIN results[w] : results[w][i].trace_id = tr.trace_id]_vars

C14_TickTockShortcut ==
  \A i \in DOMAIN calls :
    (Len(calls[i].trace.transactions) = 1
       /\ calls[i].trace.transactions[1] = "tick_tock")
      => /\ calls[i].result = [trace_id |-> calls[i].trace.trace_id, state |-> "ok",
                               actions |-> <<>>, exc |-> None]
         /\ calls[i].ran = [engine |-> 0, fallback |-> 0, unknown |-> 0]

\* process_trace was called on a lone housekeeping transaction with an engine
\* that would have raised.
C14_Witness ==
  \E i \in DOMAIN calls :
    /\ calls[i].trace.transactions = <<"tick_tock">>
    /\ calls[i].e = "raise"
    /\ calls[i].result.state = "ok"

\* The trace of call i has a transaction, is no lone housekeeping transaction
\* and the engine and the serializer returned no action for it.
NoRuleMatched(i) ==
  /\ Len(calls[i].trace.transactions) >= 1
  /\ calls[i].trace.transactions # <<"tick_tock">>
  /\ ~EngineRaises(calls[i].e)
  /\ Len(SerializeBlocks(calls[i].trace, calls[i].e).actions) = 0

\* C15 as stated: when no rule matched, process_trace runs the unknown
\* fallback once and returns exactly one unknown action.
C15_FallbackGivesOneUnknown ==
  \A i \in DOMAIN calls :
    NoRuleMatched(i) =>
      /\ calls[i].ran.fallback = 1
      /\ Len(calls[i].result.actions) = 1
      /\ calls[i].result.actions[1].type = "unknown"

\* C15 amended: when no rule matched, process_trace runs the unknown fallback
\* once and returns exactly one unknown action: the fallback's with the
\* serializer's state, or, when the fallback raises, the synthesized one with
\* state failed; when synthesizing it raises too, it returns no action.
C15_FallbackOnce ==
  \A i \in DOMAIN calls :
    NoRuleMatched(i) =>
      /\ calls[i].ran.fallback = 1
      /\ calls[i].result.state =
           IF TryClassifyUnknownRaises(calls[i].e) THEN "failed"
           ELSE SerializeBlocks(calls[i].trace, calls[i].e).state
      /\ calls[i].result.actions =
           IF TryClassifyUnknownRaises(calls[i].e) /\ CreateUnknownActionRaises(calls[i].e)
             THEN <<>>
             ELSE <<Action("a1", calls[i].trace, "unknown", <<"u">>)>>

\* process_trace was called on a trace of one ordinary transaction that no rule
\* matched and returned the fallback's unknown action.
C15_Witness ==
  \E i \in DOMAIN calls :
    /\ calls[i].trace.transactions = <<"ord">>
    /\ calls[i].e = "none"
    /\ calls[i].ran.fallback = 1
    /\ calls[i].result.state = "ok"
    /\ Len(calls[i].result.actions) = 1

QuarantineRows(table, trace_id) == {f \in table : f.trace_id = trace_id}

\* C16 as stated: after a batch commits, each trace it classified as broken
\* has its action keys in the actions table and a quarantine row with
\* broken = true, each trace it classified as failed has a quarantine row with
\* broken = false and the error text, and a trace it classified as ok got no
\* quarantine row from the batch.
C16_QuarantineMatchesState ==
  [][\A w \in Workers :
       Committed(w) =>
         \A i \in DOMAIN results[w] :
           LET r == results[w][i]
           IN /\ r.state = "broken" =>
                   /\ ActionKeys(ResultRows(r)) \subseteq ActionKeys(actions')
                   /\ [trace_id |-> r.trace_id, broken |-> TRUE, error |-> None]
                        \in failed_traces'
              /\ r.state = "failed" =>
                   [trace_id |-> r.trace_id, broken |-> FALSE, error |-> r.exc]
                     \in failed_traces'
              /\ r.state = "ok" =>
                   QuarantineRows(failed_traces', r.trace_id)
                     = QuarantineRows(failed_traces, r.trace_id)]_vars

\* C16 amended: as stated for a trace that had no quarantine row before the
\* commit; the quarantine row a trace already had is kept as it is and no
\* second one is added.
C16_QuarantineUnlessPresent ==
  [][\A w \in Workers :
       Committed(w) =>
         \A i \in DOMAIN results[w] :
           LET r == results[w][i]
               old == QuarantineRows(failed_traces, r.trace_id)
               new == QuarantineRows(failed_traces', r.trace_id)
           IN /\ r.state = "broken" =>
                   /\ ActionKeys(ResultRows(r)) \subseteq ActionKeys(actions')
                   /\ new = IF old = {}
                              THEN {[trace_id |-> r.trace_id, broken |-> TRUE,
                                     error |-> None]}
                              ELSE old
              /\ r.state = "failed" =>
                   new = IF old = {}
                           THEN {[trace_id |-> r.trace_id, broken |-> FALSE,
                                  error |-> r.exc]}
                           ELSE old
              /\ r.state = "ok" => new = old]_vars

\* The batch <<1, 3>> committed with trace A broken and trace C failed: the
\* outcome (True, 2, 1, 1) is reported, A's action is stored and both
\* quarantine rows are there.
C16_Witness ==
  /\ result_queue = <<<<TRUE, 2, 1, 1>>>>
  /\ [action_id |-> "a1", trace_id |-> "A", type |-> "p"] \in actions
  /\ failed_traces = {[trace_id |-> "A", broken |-> TRUE, error |-> None],
                      [trace_id |-> "C", broken |-> FALSE, error |-> "Exception"]}

\* The messages published for request id.
Answers(id) == SelectSeq(published, LAMBDA m : m[1] = id)

\* C19: every request the on-demand loop has taken and is done with has
\* exactly one message on its result channel, success or error; success is
\* published only when the actions are stored under the request's result key,
\* error only when the error text is stored under the request's error key.
C19_ExactlyOneAnswer ==
  /\ \A k \in DOMAIN published :
       /\ published[k][2] = "success" => published[k][1] \in DOMAIN redis_result
       /\ published[k][2] = "error" => published[k][1] \in DOMAIN redis_error
  /\ \A id \in received :
       (id # cur \/ dpc = "dead") => Len(Answers(id)) = 1

\* The builds of a match with the one payment request of the rule's sequence,
\* whose exit code is the OK code or NO_LIQUIDITY.
IsPlainSwap(b) ==
  /\ Len(b.payment_requests) = 1
  /\ b.payment_requests[1].exit_code \in
       {stonfi_swap_ok_exit_code, stonfi_swap_no_liq_exit_code}

Killed(w) == wpc[w] # "dead" /\ wpc'[w] = "dead"

\* C20: the step in which a worker is killed before its commit leaves every
\* table as it was and drops what the transaction had staged; a task of the
\* dead worker that is still in the backlog is a candidate of the claim
\* statement as soon as its lease has expired.
C20_CrashSafe ==
  /\ [][\A w \in Workers : Killed(w) => (store' = store /\ tx'[w] = NoTx)]_vars
  /\ [](\A w \in Workers : wpc[w] = "dead" =>
          \A id \in Range(wtasks[w]) :
            (/\ tasks[id].present
             /\ tasks[id].claimed_at # NULL
             /\ tasks[id].claimed_at < now - LeaseMinutes
             /\ ~Locked(id)) => id \in Candidates(now))

\* A claimer has taken a task of a dead worker again, after its lease expired.
C20_Witness ==
  \E w \in Workers, r \in Claimers :
    /\ wpc[w] = "dead"
    /\ rpc[r] = "commit"
    /\ \E id \in Range(wtasks[w]) \cap Range(rows[r]) :
         /\ tasks[id].present
         /\ tasks[id].claimed_at # NULL
         /\ rnow[r] > tasks[id].claimed_at + LeaseMinutes

\* The positions at which task id occurs in the batches bs.
Places(bs, id) ==
  {p \in (DOMAIN bs) \X (1 .. 5) : p[2] \in DOMAIN bs[p[1]] /\ bs[p[1]][p[2]] = id}

\* C21: _split_tasks_into_batches partitions the claimed tasks: every task is
\* at exactly one place of the returned batches and nothing else is; a task
\* without a trace id is alone in its batch; the tasks with a trace id are in
\* at most one batch.
C21_SplitPartitions ==
  \A k \in DOMAIN splits :
    LET ts == splits[k].tasks
        bs == splits[k].batches IN
    /\ \A id \in Range(ts) : Cardinality(Places(bs, id)) = 1
    /\ \A i \in DOMAIN bs : Range(bs[i]) \subseteq Range(ts)
    /\ \A i \in DOMAIN bs : \A j \in DOMAIN bs[i] :
         ClassifierTask(bs[i][j]).trace_id = None => Len(bs[i]) = 1
    /\ Cardinality({i \in DOMAIN bs :
                      \E j \in DOMAIN bs[i] : ClassifierTask(bs[i][j]).trace_id # None}) <= 1

\* A list with two sequence tasks and two trace tasks has been split into
\* three batches.
C21_Witness ==
  \E k \in DOMAIN splits :
    /\ {1, 2, 3, 4} \subseteq Range(splits[k].tasks)
    /\ Len(splits[k].batches) = 3

\* A batch on which tasks[0] is defined and both assertions of the worker
\* (lines 234-238) pass.
WellFormed(batch) ==
  /\ batch # <<>>
  /\ \/ \A i \in DOMAIN batch : ClassifierTask(batch[i]).trace_id # None
     \/ \A i \in DOMAIN batch : ClassifierTask(batch[i]).trace_id = None

\* C22: every batch the claimer is about to put, every batch on the work
\* queue and every batch a worker holds is non-empty and consists of trace
\* tasks only or of sequence tasks only.
C22_BatchesWellFormed ==
  /\ \A r \in Claimers : \A i \in DOMAIN batches[r] : WellFormed(batches[r][i])
  /\ \A i \in DOMAIN task_queue : WellFormed(task_queue[i])
  /\ \A w \in Workers : wpc[w] # "idle" => WellFormed(wtasks[w])

\* One claim returned a sequence task and a trace task; both batches are on
\* the work queue.
C22_Witness ==
  /\ Len(task_queue) = 2
  /\ ~IsTraceBatch(task_queue[1])
  /\ IsTraceBatch(task_queue[2])

\* Claimer r runs its claim statement in this step.
Claims(r) == rpc[r] = "read" /\ rpc'[r] = "commit"

\* C23: the rows one claim returns are at most batch_size, and each of them
\* was in the backlog with no lease or a lease older than 5 minutes and with
\* no not-before or one that had elapsed; so a lease never starts before the
\* task's not-before.
C23_ClaimsEligible ==
  /\ [][\A r \in Claimers : Claims(r) =>
          /\ Len(rows'[r]) <= batch_size
          /\ \A id \in Range(rows'[r]) :
               /\ tasks[id].present
               /\ \/ tasks[id].claimed_at = NULL
                  \/ now - tasks[id].claimed_at > LeaseMinutes
               /\ \/ ClassifierTask(id).start_after = NULL
                  \/ ClassifierTask(id).start_after <= now]_vars
  /\ [](\A id \in TaskIds :
          (tasks[id].claimed_at # NULL /\ ClassifierTask(id).start_after # NULL)
            => ClassifierTask(id).start_after <= tasks[id].claimed_at)

\* A full claim that holds the task with a not-before, and one that takes a
\* task again whose lease has expired.
C23_Witness ==
  \E r \in Claimers :
    /\ rpc[r] = "commit"
    /\ Len(rows[r]) = batch_size
    /\ 3 \in Range(rows[r])
    /\ \E id \in Range(rows[r]) : tasks[id].claimed_at # NULL

\* C24: the work queue never holds more than prefetch_size batches; a claimer
\* with a batch to put does not move while the queue is full; and a batch
\* leaves a claimer's hands only by being appended to the work queue.
C24_Backpressure ==
  /\ [](Len(task_queue) <= prefetch_size)
  /\ [][\A r \in Claimers :
          (rpc[r] = "put" /\ Len(task_queue) = prefetch_size)
            => (rpc'[r] = "put" /\ batches'[r] = batches[r])]_vars
  /\ [][\A r \in Claimers :
          (rpc[r] = "put" /\ batches'[r] # batches[r])
            => /\ batches'[r] = Tail(batches[r])
               /\ task_queue' = Append(task_queue, Head(batches[r]))]_vars

\* A claimer waits with a batch in hand at a full work queue.
C24_Witness ==
  \E r \in Claimers :
    /\ rpc[r] = "put"
    /\ batches[r] # <<>>
    /\ Len(task_queue) = prefetch_size

\* Worker w takes a batch in this step; worker w is done with its batch.
Takes(w) == wpc[w] = "idle" /\ wpc'[w] # "idle"
Reports(w) == wpc[w] # "idle" /\ wpc'[w] = "idle"

\* C25: the step in which a worker is done with its batch appends one outcome
\* to the stats channel and no other step appends one; in every outcome
\* failed + broken <= total, and an outcome with ok = False has three zeros.
C25_OneOutcomePerBatch ==
  /\ [][\A w \in Workers : Reports(w) =>
          (Len(result_queue') = Len(result_queue) + 1
           /\ SubSeq(result_queue', 1, Len(result_queue)) = result_queue)]_vars
  /\ [][Len(result_queue') > Len(result_queue) =>
          Cardinality({w \in Workers : Reports(w)}) = 1]_vars
  /\ [][\A w \in Workers : Takes(w) => result_queue' = result_queue]_vars
  /\ [](\A i \in DOMAIN result_queue :
          LET o == result_queue[i] IN
          /\ o[3] + o[4] <= o[2]
          /\ ~o[1] => (o[2] = 0 /\ o[3] = 0 /\ o[4] = 0))

\* The outcome of a batch of two traces of which one failed or is broken.
C25_Witness ==
  \E i \in DOMAIN result_queue :
    /\ result_queue[i][1]
    /\ result_queue[i][2] = 2
    /\ result_queue[i][3] + result_queue[i][4] = 1

\* C27: a claimer goes on to put batches only when the transaction that set
\* the lease of its rows committed: each row then carries the claimer's lease.
C27_EnqueuedOnlyIfCommitted ==
  [][\A r \in Claimers :
       (rpc[r] = "commit" /\ rpc'[r] = "put")
         => \A id \in Range(rows[r]) : tasks'[id].claimed_at = rnow[r]]_vars

C29_BacklogDrains == <>[](\A id \in TaskIds : ~tasks[id].present)

\* The backlog is empty after every task was classified.
C29_Witness ==
  /\ \A id \in TaskIds : ~tasks[id].present
  /\ 1 \in blocks_classified
  /\ \E a \in actions : a.trace_id = "C"
  /\ \E a \in actions : a.trace_id = "A"

\* C30: when the combined batch of tasks 1 and 3 fails on the duplicate key
\* of trace A, task 3 is eventually completed and deleted.
C30_OthersCompleted ==
  \A w \in Workers :
    (wpc[w] = "raised" /\ {1, 3} \subseteq Range(wtasks[w])) ~> ~tasks[3].present


\* The traces whose stored rows the transaction of worker w deletes.
PurgedTraces(w) ==
  {a.trace_id : a \in tx[w].delActions} \cup {a.trace_id : a \in tx[w].delAccounts}

\* C31: in a sequence batch the purge touches only what is rebuilt: when the
\* batch commits, every trace whose stored actions or action accounts it
\* deletes is a trace the batch loaded and classified, so no trace loses its
\* stored actions without getting a new classification.
C31_PurgeOnlyRebuilt ==
  [][\A w \in Workers :
       (Committed(w) /\ ~IsTraceBatch(wtasks[w])) =>
         PurgedTraces(w) \subseteq
           {results[w][i].trace_id : i \in DOMAIN results[w]}]_vars

\* C32: the quarantine is append-only and conflict-ignored: no step removes
\* or changes a row of _classifier_failed_traces, and a commit that records a
\* trace id which already has a row leaves the rows of that trace as they
\* were and reports the batch as done.
C32_QuarantineAppendOnly ==
  [][/\ failed_traces \subseteq failed_traces'
     /\ \A w \in Workers :
          Committed(w) =>
            \A f \in tx[w].insFailed :
              QuarantineRows(failed_traces, f.trace_id) # {} =>
                /\ QuarantineRows(failed_traces', f.trace_id)
                     = QuarantineRows(failed_traces, f.trace_id)
                /\ result_queue' = Append(result_queue, BatchOutcome(results[w]))]_vars

\* The trace batch <<1>> committed with trace A failed after the sequence
\* batch <<2>> had quarantined A as broken: the row of A is the older one.
C32_Witness ==
  /\ result_queue = <<<<TRUE, 1, 1, 0>>>>
  /\ ~tasks[1].present /\ ~tasks[2].present /\ tasks[3].present
  /\ failed_traces = {[trace_id |-> "A", broken |-> TRUE, error |-> None]}


\* The kind and payload of each action of a list, without the trace id.
Payloads(acts) ==
  [i \in DOMAIN acts |->
     [action_id |-> acts[i].action_id, type |-> acts[i].type,
      accounts |-> acts[i].accounts]]

\* C33: the on-demand path runs the classification driver of the batch path:
\* for every trace and every outcome of the rule engine and the fallbacks,
\* process_emulated_task_trace returns a list of actions, and that list has
\* the kinds and payloads (the trace id apart) of the list process_trace
\* returns, also for a lone housekeeping transaction, for a trace no rule
\* matches and for a rule evaluation that raises.
C33_SameDriver ==
  \A k \in DOMAIN emulated_calls :
    LET c == emulated_calls[k] IN
    /\ ~c.result.raised
    /\ Payloads(c.result.actions) = Payloads(ProcessTrace(c.trace, c.e).actions)


\* The out amount and the address field a payment request offers.
OutAmount(pr) == IF pr.amount0_out > 0 THEN pr.amount0_out ELSE pr.amount1_out
OutAddr(pr, i) ==
  [request |-> i, field |-> IF pr.amount0_out > 0 THEN "token0_out" ELSE "token1_out"]

\* C35: in a StonFi build whose payment requests all carry sender-related
\* exit codes, the outgoing amount, the outgoing address and the outgoing
\* transfer are those of a request with the largest out amount, and of two
\* requests with different out amounts the smaller amount and its address
\* are the referral amount and the referral address.
C35_BestOfMany ==
  \A k \in DOMAIN swaps :
    LET prs == swaps[k].payment_requests
        b == swaps[k].built IN
    (\A i \in DOMAIN prs : prs[i].exit_code \in stonfi_sender_related_exit_codes) =>
      /\ ~b.raised
      /\ \E i \in DOMAIN prs :
           LET d == b.blocks[1].data IN
           /\ \A j \in DOMAIN prs : OutAmount(prs[j]) <= OutAmount(prs[i])
           /\ d.dex_outgoing_transfer.amount = Amount(OutAmount(prs[i]))
           /\ d.dex_outgoing_transfer.asset = [jetton_of |-> OutAddr(prs[i], i)]
           /\ d.dex_outgoing_transfer.transfer_of = i
           /\ \A j \in DOMAIN prs :
                OutAmount(prs[j]) < OutAmount(prs[i]) =>
                  /\ d.referral_amount = Amount(OutAmount(prs[j]))
                  /\ d.referral_address = OutAddr(prs[j], j)


\* The blocks a build was passed: the anchor and the matched blocks, a
\* pass-through wrapper standing for the blocks it groups.
Passed(b) ==
  UNION {IF b.block = Anchor /\ "notified" \in DOMAIN b.match
           THEN DedustChildren(b.match, x) ELSE {x} :
         x \in {b.block} \cup b.other_blocks}

\* A build that returned a block, a build that returned the empty list.
ReturnedBlock(b) == ~b.built.raised /\ b.built.blocks # <<>>
ReturnedNone(b) == ~b.built.raised /\ b.built.blocks = <<>>

\* The pay-to exit codes of a chain match that are no success codes.
FailedHops(b) ==
  IF b.rule = "stonfi_v2"
    THEN {i \in DOMAIN b.match.pay_to : b.match.pay_to[i] # "0xc64370e5"}
    ELSE {i \in DOMAIN b.match.payout : b.match.payout[i] \notin {0, 200}}

\* A StonFi v2 or Tonco chain with an incoming and a final outgoing transfer
\* on which no decoding and no lookup raises.
CompleteChain(b) ==
  \/ /\ b.rule = "stonfi_v2"
     /\ b.match.out_transfer
     /\ b.match.assets_mapped
     /\ b.match.pton_transfer \/ b.match.has_internal_transfer
  \/ /\ b.rule = "tonco"
     /\ b.match.out_transfer \in {"jetton_transfer", "call_contract"}
     /\ b.match.in_transfer \in {"jetton_transfer", "call_contract"}
     /\ ~b.match.lookup_raises

\* C34: semantic invalidity never makes a swap rule decline: the build of a
\* structurally matched StonFi v2 or Tonco chain with an incoming and a final
\* outgoing transfer returns exactly one jetton_swap block, whose failed flag
\* is true exactly when a hop's pay-to carries a non-success exit code.
C34_ChainNeverDeclined ==
  \A k \in DOMAIN builds :
    LET b == builds[k] IN
    CompleteChain(b) =>
      /\ ~b.built.raised
      /\ Len(b.built.blocks) = 1
      /\ b.built.blocks[1].btype = "jetton_swap"
      /\ b.built.blocks[1].failed = (FailedHops(b) # {})

\* C36: a build of a swap rule that returns a block has handed to
\* merge_blocks exactly the anchor and the matched blocks it was passed: no
\* other block, and every one of them.
C36_MergesExactlyPassed ==
  /\ \A k \in DOMAIN swaps :
       ReturnedBlock(swaps[k]) =>
         swaps[k].built.merged = {swaps[k].block} \cup swaps[k].other_blocks
  /\ \A k \in DOMAIN builds :
       ReturnedBlock(builds[k]) => builds[k].built.merged = Passed(builds[k])

\* C37: a build of a swap rule that returns the empty list has merged no
\* block and has set no flag of the anchor or of a matched block.
C37_DeclineLeavesBlocks ==
  /\ \A k \in DOMAIN swaps :
       ReturnedNone(swaps[k]) =>
         swaps[k].built.merged = {} /\ swaps[k].built.broken = {}
  /\ \A k \in DOMAIN builds :
       ReturnedNone(builds[k]) =>
         builds[k].built.merged = {} /\ builds[k].built.broken = {}

\* The Coffee rule has declined a two-hop chain with every labelled block,
\* neither swap call being followed by a success event.
C37_Witness ==
  \E k \in DOMAIN builds :
    /\ builds[k].rule = "coffee"
    /\ builds[k].match = [in_transfer |-> TRUE, payout |-> TRUE, out_transfer |-> TRUE,
                          events |-> <<FALSE, FALSE>>]
    /\ ReturnedNone(builds[k])
    /\ builds[k].other_blocks # {}

\* C38: the peer_swaps list of a jetton_swap block built by StonFi v2,
\* Dedust, Tonco or Coffee is empty or has two entries or more.
C38_PeerSwapsNeverOne ==
  \A k \in DOMAIN builds :
    \A j \in DOMAIN builds[k].built.blocks :
      Len(builds[k].built.blocks[j].data.peer_swaps) # 1


\* The rule of chain c matches in this step and its build returns a block.
Rewrites(c) ==
  /\ engine.pc = "pass" /\ c \in engine.todo
  /\ engine'.pc = "pass" /\ c \notin engine'.todo
  /\ engine.chains[c].outcome = "block"
  /\ ChainBlocks(c, engine.chains[c]) \subseteq engine.pool

====
